---- MODULE Spec2Model ----
(***************************************************************************)
(* A state-machine model of the snap syncer of eth/protocols/snap/sync.go: *)
(* the peer registry, the five request classes with their live tables,     *)
(* timers and worker goroutines, the account tasks with their storage      *)
(* subtasks, the heal task and the Sync event loop.  The 256-bit hash      *)
(* space, the chunk counts and the request size limits are scaled down;    *)
(* every other step follows the source.                                    *)
(***************************************************************************)
EXTENDS Integers, Sequences, FiniteSets, TLC

----------------------------------------------------------------------------
(* Bounds of the model *)

\* The peer ids that ever connect.
Peers == {"p1", "p2"}

\* Requests created within one Sync cycle.
MaxReqs == 4

\* Request ids are drawn from 0..MaxId (rand.Int63 scaled down).
MaxId == 2

----------------------------------------------------------------------------
(* Program constants, scaled down *)

\* 2^256 in the source: the size of the hash space.
hashSpace == 8

\* 16 in the source.
accountConcurrency == 2

\* 16 in the source.
storageConcurrency == 2

\* 1024 in the source.
maxStorageSetRequestCount == 2

\* 1024 in the source.
maxCodeRequestCount == 1

\* 1024 in the source.
maxTrieRequestCount == 1

\* The known hash of the empty bytecode and the known root of the empty trie.
emptyCode == "emptyCode"
emptyRoot == "emptyRoot"

\* common.Hash{}: the zero value of a hash.
zeroHash == "zeroHash"

Classes == {"account", "bytecode", "storage", "trienodeHeal", "bytecodeHeal"}

\* The order in which one iteration of the Sync loop calls the assigners.
ClassOrder == << "account", "bytecode", "storage", "trienodeHeal", "bytecodeHeal" >>

----------------------------------------------------------------------------
(* Helpers *)

RECURSIVE SortedSeq(_)
SortedSeq(S) ==
  IF S = {} THEN <<>>
  ELSE LET m == CHOOSE x \in S : \A y \in S : x <= y
       IN <<m>> \o SortedSeq(S \ {m})

\* A set of strings as a sequence, in one fixed order.
RECURSIVE AsSeq(_)
AsSeq(S) ==
  IF S = {} THEN <<>>
  ELSE LET m == CHOOSE x \in S : TRUE
       IN <<m>> \o AsSeq(S \ {m})

Min(S) == CHOOSE x \in S : \A y \in S : x <= y

Range(f) == { f[x] : x \in DOMAIN f }

\* common.BigToHash keeps the low 32 bytes of the integer.
BigToHash(n) == n % hashSpace

\* delete(m, k) on a Go map
MapDelete(f, k) == [x \in DOMAIN f \ {k} |-> f[x]]

\* m[k] = v on a Go map
MapPut(f, k, v) == (k :> v) @@ f

EmptyMap == [x \in {} |-> 0]

\* A function over 1..n as a sequence value.
Tuple(f) == SubSeq(f, 1, Len(f))

----------------------------------------------------------------------------
(* Tries.  The trie of another package is a binary trie over the hash      *)
(* space here: a node covers an interval of hashes that holds a key, and   *)
(* its hash is its content, the kind of trie, the interval and the keys    *)
(* below it.  Two tries with the same keys in an interval share the node.  *)

\* The widths of the intervals, from a leaf to the root.
Widths == { w \in 1..hashSpace : hashSpace % w = 0 }

\* The node of a trie with the keys all that covers lo..hi.
TrieNode(kind, all, lo, hi) ==
  [ kind |-> kind, lo |-> lo, hi |-> hi, keys |-> { k \in all : lo <= k /\ k <= hi } ]

\* The nodes from the root towards key, as far as the trie has them: what a
\* proof of key, or of its absence, consists of.
ProofOf(kind, all, key) ==
  { n \in { TrieNode(kind, all, key - (key % w), key - (key % w) + w - 1) : w \in Widths } :
      n.keys # {} }

\* The root node of a trie is among the nodes.
HasRoot(nodes) == \E n \in nodes : n.lo = 0 /\ n.hi = hashSpace - 1

\* trie.Prove(key, 0, set) on a reconstructed trie: its nodes towards key.
Prove(nodes, key) == { n \in nodes : n.lo <= key /\ key <= n.hi }

\* The node database and the notary trie.VerifyRangeProof returns for the
\* keys it was given.  With a proof, the nodes towards origin and towards
\* the last key were read from the proof: they are the boundary.
Reconstructed(kind, all, origin, keys, proof) ==
  LET edge  == IF ~proof THEN {}
               ELSE ProofOf(kind, all, origin)
                      \cup (IF keys = << >> THEN {} ELSE ProofOf(kind, all, keys[Len(keys)]))
      inner == UNION { ProofOf(kind, all, keys[i]) : i \in 1..Len(keys) }
  IN [ nodes |-> edge \cup inner, bounds |-> edge ]

----------------------------------------------------------------------------
(* The environment: the remote state every honest peer serves, what is     *)
(* left to heal, and how often the environment may interfere.              *)

Plain == [code |-> emptyCode, root |-> emptyRoot]

\* The root of the state trie the scenarios sync to.
stateRoot == "stateRoot"

\* The counters of the Syncer that saveSyncStatus copies into the progress
\* record and loadSyncStatus copies back (the byte counters are left out).
SavedCounters == { "accountSynced", "bytecodeSynced", "storageSynced",
                   "trienodeHealSynced", "bytecodeHealSynced" }

\* The counters of the progress record that nothing assigns.
UnsavedCounters == { "trienodeHealDups", "trienodeHealNops", "bytecodeHealDups", "bytecodeHealNops" }

\* All counters at their zero value.
NoCount == [ c \in SavedCounters \cup UnsavedCounters |-> 0 ]

\* A persisted account task without storage subtasks.
Left(next, last) == [Next |-> next, Last |-> last, SubTasks |-> EmptyMap]

\* No status on disk, and the status a cycle leaves behind.
NoStatus == [saved |-> FALSE, Tasks |-> << >>, ctr |-> NoCount]
Saved(ts) == [saved |-> TRUE, Tasks |-> ts, ctr |-> NoCount]

\* The budgets of a scenario: calls of Register, calls of Unregister, timer
\* expirations and transport failures, rejected requests, closes of cancel.
\* Further: calls of Sync, and calls of Register and Unregister that fail.
Quiet == [ reg |-> 2, unreg |-> 0, faults |-> 0, empty |-> 0, cancel |-> 0, seen |-> {},
           sync |-> 1, bad |-> 0 ]

\* A first cycle over plain accounts; a request may time out or fail to be sent.
Fresh ==
  [ world  |-> (1 :> Plain) @@ (3 :> Plain) @@ (7 :> Plain),
    root   |-> stateRoot,
    slots  |-> EmptyMap, nodes |-> {}, codes |-> {},
    status |-> NoStatus,
    may    |-> [Quiet EXCEPT !.faults = 1] ]

\* An earlier cycle left the lower half of the accounts: a plain account and
\* a contract with code and three storage slots.  The cycle may be cancelled.
Contracts ==
  [ world  |-> (1 :> Plain) @@ (2 :> [code |-> "c1", root |-> "r1"]),
    root   |-> stateRoot,
    slots  |-> ("r1" :> {2, 3, 5}), nodes |-> {}, codes |-> {},
    status |-> Saved(<< Left(0, 3) >>),
    may    |-> [Quiet EXCEPT !.cancel = 1] ]

\* The snap phase was completed by an earlier cycle; a trie node and a
\* bytecode are left to heal, and a peer may reject a request.
Healing ==
  [ world  |-> EmptyMap,
    root   |-> stateRoot,
    slots  |-> EmptyMap, nodes |-> {"n1"}, codes |-> {"hc1"},
    status |-> Saved(<< >>),
    may    |-> [Quiet EXCEPT !.empty = 1] ]

\* An earlier cycle left the upper half of the accounts; a peer may reject a
\* request, leave and come back.
Resumed ==
  [ world  |-> (5 :> Plain) @@ (7 :> Plain),
    root   |-> stateRoot,
    slots  |-> EmptyMap, nodes |-> {}, codes |-> {},
    status |-> Saved(<< Left(4, 7) >>),
    may    |-> [Quiet EXCEPT !.unreg = 1, !.empty = 1] ]

\* A first cycle over plain accounts; a peer leaves and comes back.
Rejoin ==
  [ world  |-> (1 :> Plain) @@ (3 :> Plain) @@ (7 :> Plain),
    root   |-> stateRoot,
    slots  |-> EmptyMap, nodes |-> {}, codes |-> {},
    status |-> NoStatus,
    may    |-> [Quiet EXCEPT !.unreg = 1] ]

\* The upper half of the accounts is left; a peer leaves, and peers join.
Churn ==
  [ world  |-> (5 :> Plain) @@ (7 :> Plain),
    root   |-> stateRoot,
    slots  |-> EmptyMap, nodes |-> {}, codes |-> {},
    status |-> Saved(<< Left(4, 7) >>),
    may    |-> [Quiet EXCEPT !.reg = 3, !.unreg = 1] ]

\* A first cycle to the root of the empty trie: no account, nothing to heal.
\* A request may time out, calls of the registry may fail and the cycle may
\* be cancelled.
EmptyTrie ==
  [ world  |-> EmptyMap,
    root   |-> emptyRoot,
    slots  |-> EmptyMap, nodes |-> {}, codes |-> {},
    status |-> NoStatus,
    may    |-> [Quiet EXCEPT !.faults = 1, !.bad = 1, !.cancel = 1] ]

\* The snap phase was completed by an earlier cycle and a trie node is left
\* to heal; a peer leaves, and Sync is called again after it returned.
Mended ==
  [ world  |-> EmptyMap,
    root   |-> stateRoot,
    slots  |-> EmptyMap, nodes |-> {"n1"}, codes |-> {},
    status |-> Saved(<< >>),
    may    |-> [Quiet EXCEPT !.unreg = 1, !.sync = 2] ]

\* A trie node and a bytecode are left to heal, and a peer leaves.
Departure ==
  [ world  |-> EmptyMap,
    root   |-> stateRoot,
    slots  |-> EmptyMap, nodes |-> {"n1"}, codes |-> {"hc1"},
    status |-> Saved(<< >>),
    may    |-> [Quiet EXCEPT !.unreg = 1] ]

\* The upper half of the accounts is left; two peers leave, and peers join.
Exodus ==
  [ world  |-> (5 :> Plain) @@ (7 :> Plain),
    root   |-> stateRoot,
    slots  |-> EmptyMap, nodes |-> {}, codes |-> {},
    status |-> Saved(<< Left(4, 7) >>),
    may    |-> [Quiet EXCEPT !.reg = 3, !.unreg = 2] ]

\* The upper half of the accounts is left; a peer may reject a request, a
\* peer may leave, and peers join.
Turned == [ world |-> (5 :> Plain) @@ (7 :> Plain), root |-> stateRoot, slots |-> EmptyMap, nodes |-> {}, codes |-> {},
            status |-> Saved(<< Left(4, 7) >>), may |-> [Quiet EXCEPT !.reg = 3, !.unreg = 1, !.empty = 1] ]

\* The upper half of the accounts is left and a trie node is to heal.
Phased == [ world |-> (5 :> Plain) @@ (7 :> Plain), root |-> stateRoot, slots |-> EmptyMap, nodes |-> {"n1"}, codes |-> {},
            status |-> Saved(<< Left(4, 7) >>), may |-> Quiet ]

\* The lower half of the accounts is left: three contracts without code, one
\* with two storage slots and two that share a one-slot trie.  A peer leaves.
Estates == [ world |-> (1 :> [code |-> emptyCode, root |-> "r1"]) @@ (2 :> [code |-> emptyCode, root |-> "r2"])
                         @@ (3 :> [code |-> emptyCode, root |-> "r2"]),
             root |-> stateRoot, slots |-> ("r1" :> {3, 5}) @@ ("r2" :> {1}), nodes |-> {}, codes |-> {},
             status |-> Saved(<< Left(0, 3) >>), may |-> [Quiet EXCEPT !.unreg = 1] ]

\* The lower half of the accounts is left: one contract without code and
\* with two storage slots.  A peer leaves.
Manor == [ Estates EXCEPT !.world = (1 :> [code |-> emptyCode, root |-> "r1"]), !.slots = ("r1" :> {3, 5}) ]

\* The contract of Manor with one storage slot; a request may time out and a
\* peer leaves.
Latch == [ Manor EXCEPT !.slots = ("r1" :> {3}), !.may.faults = 1 ]

\* The upper half of the accounts is left; a request may time out, a peer
\* leaves, and peers join.
Stall == [ Churn EXCEPT !.may.faults = 1 ]

\* The upper half of the accounts is left; one peer leaves.
Handover ==
  [ world  |-> (5 :> Plain) @@ (7 :> Plain),
    root   |-> stateRoot,
    slots  |-> EmptyMap, nodes |-> {}, codes |-> {},
    status |-> Saved(<< Left(4, 7) >>),
    may    |-> [Quiet EXCEPT !.unreg = 1] ]

\* A first cycle over a state of one plain account, in the lower or in the
\* upper half of the hash space; the peers stay and answer.
Solo(hash) ==
  [ world  |-> (hash :> Plain),
    root   |-> stateRoot,
    slots  |-> EmptyMap, nodes |-> {}, codes |-> {},
    status |-> NoStatus,
    may    |-> Quiet ]

Solos == { Solo(2), Solo(5) }

\* The lower half of the accounts is left: a plain account and a contract
\* without code whose storage an earlier cycle fetched up to its last chunk.
\* A peer leaves and the cycle may be cancelled.
Legacy ==
  [ world  |-> (1 :> [code |-> emptyCode, root |-> "r1"]) @@ (3 :> Plain),
    root   |-> stateRoot,
    slots  |-> ("r1" :> {3, 5}), nodes |-> {}, codes |-> {},
    status |-> Saved(<< [ Next |-> 0, Last |-> 3,
                          SubTasks |-> (1 :> << [Next |-> 4, Last |-> 7] >>) ] >>),
    may    |-> [Quiet EXCEPT !.unreg = 1, !.cancel = 1] ]

\* A first cycle over a contract with code in the lower half and a plain
\* account in the upper half of the hash space; the cycle may be cancelled.
Border ==
  [ world  |-> (2 :> [code |-> "c1", root |-> emptyRoot]) @@ (5 :> Plain),
    root   |-> stateRoot,
    slots  |-> EmptyMap, nodes |-> {}, codes |-> {},
    status |-> NoStatus,
    may    |-> [Quiet EXCEPT !.cancel = 1] ]

\* The lower half of the accounts is left: one contract without code and
\* with three storage slots, two of them in the first chunk of its storage.
Grange ==
  [ world  |-> (1 :> [code |-> emptyCode, root |-> "r1"]),
    root   |-> stateRoot,
    slots  |-> ("r1" :> {1, 3, 5}), nodes |-> {}, codes |-> {},
    status |-> Saved(<< Left(0, 3) >>),
    may    |-> [Quiet EXCEPT !.unreg = 1] ]

Scenarios == { Fresh, Contracts, Healing, Resumed }

\* The scenarios around the persisted status.
Cycles == { EmptyTrie, Mended, Contracts }

----------------------------------------------------------------------------
VARIABLES
  peers,           \* s.peers: ids of the registered peers
  statelessPeers,  \* s.statelessPeers
  idlers,          \* class -> s.<class>Idlers
  reqs,            \* class -> s.<class>Reqs: request id -> request
  requests,        \* every request object created in this cycle, by handle
  tasks,           \* the accountTask objects, by task handle
  tasklist,        \* s.tasks: the handles of the tasks still in the list
  healer,          \* s.healer with its scheduler
  snapped,         \* s.snapped
  update,          \* s.update (buffered, capacity 1): TRUE when full
  peerJoin,        \* events buffered on the loop's peerJoin subscription
  peerDrop,        \* peer ids buffered on the loop's peerDrop subscription
  failq,           \* workers inside scheduleRevert<Class>Request
  respq,           \* workers about to send a validated response to the loop
  pc,              \* where the Sync loop stands
  dropping,        \* requests collected by revertRequests, not yet reverted
  cancel,          \* TRUE once the cancel channel is closed
  result,          \* what Sync returned
  ctr,             \* the synced counters
  db,              \* s.db: the bytecodes, trie nodes and storage tries on disk
  hist,            \* history: what the registry and the loop did last
  env,             \* the scenario and what is left of its budgets
  lock             \* s.lock: who is inside a section it guards

vars == << peers, statelessPeers, idlers, reqs, requests, tasks, tasklist, healer,
           snapped, update, peerJoin, peerDrop, failq, respq, pc, dropping, cancel,
           result, ctr, db, hist, env, lock >>

\* s.lock is free; the loop is inside assign<Class>Tasks.
Unlocked == [by |-> "none", h |-> 0]
Loop == [by |-> "loop", h |-> 0]

registry == << peers, statelessPeers, idlers, reqs >>
taskVars == << tasks, tasklist, healer, snapped, ctr, db >>
chans    == << update, peerJoin, peerDrop, failq, respq >>
loopVars == << pc, dropping, result >>

----------------------------------------------------------------------------
(* Entities *)

NoRes == [ present |-> FALSE, hashes |-> <<>>, accounts |-> <<>>, cont |-> FALSE,
           nodes |-> {}, bounds |-> {}, overflow |-> {} ]

\* An accountTask as loadSyncStatus creates it.
NewTask(next, last) ==
  [ Next |-> next, Last |-> last, SubTasks |-> EmptyMap,
    req |-> 0, res |-> NoRes, pend |-> 0,
    needCode |-> <<>>, needState |-> <<>>, needHeal |-> <<>>,
    codeTasks |-> {}, stateTasks |-> EmptyMap, done |-> FALSE ]

\* A storageTask as processStorageResponse creates it.
\* id tells the objects apart: the account, the Last and the request whose
\* response created the chunks.
NewSubTask(next, last, root, id) ==
  [ Next |-> next, Last |-> last, root |-> root, req |-> 0, done |-> FALSE, id |-> id ]

RECURSIVE chunkRange(_, _, _)

\* chunkRange with every chunk starting on the Last of the one before.
chunkRangeOverlap(n, i, next) ==
  IF i >= n THEN <<>>
  ELSE LET step == (hashSpace \div n) - 1
           last == IF i = n - 1 THEN hashSpace - 1 ELSE BigToHash(next + step)
       IN << [Next |-> next, Last |-> last] >>
            \o chunkRange(n, i + 1, last)

\* The chunking loop shared by loadSyncStatus (accounts) and
\* processStorageResponse (large contracts): n intervals of equal width, the
\* last one stretched to the end of the hash space.
chunkRange(n, i, next) ==
  IF i >= n THEN <<>>
  ELSE LET step == (hashSpace \div n) - 1
           last == IF i = n - 1 THEN hashSpace - 1 ELSE BigToHash(next + step)
       IN << [Next |-> next, Last |-> last] >>
            \o chunkRange(n, i + 1, BigToHash(last + 1))

\* json.Unmarshal of a persisted account task: the exported fields Next,
\* Last and SubTasks are read, every other field has its zero value.
unmarshalTask(rec) ==
  [ NewTask(rec.Next, rec.Last) EXCEPT
      !.SubTasks = [ a \in DOMAIN rec.SubTasks |->
                       Tuple([ k \in 1..Len(rec.SubTasks[a]) |->
                           NewSubTask(rec.SubTasks[a][k].Next, rec.SubTasks[a][k].Last, zeroHash,
                                      << a, rec.SubTasks[a][k].Last, 0 >>) ]) ] ]

\* loadSyncStatus with the whole hash space in one task.
loadSyncStatusSingle(L, status) ==
  [ L EXCEPT !.tasks    = @ \o << NewTask(0, hashSpace - 1) >>,
             !.tasklist = << Len(L.tasks) + 1 >> ]

\* loadSyncStatus: s.tasks, s.snapped and the saved counters from the
\* persisted status, or the fresh chunks and zeroed counters.  The task
\* objects of an earlier cycle stay behind, out of s.tasks.
loadSyncStatus(L, status) ==
  LET chunks == chunkRange(accountConcurrency, 0, 0)
      n      == Len(L.tasks)
  IN IF status.saved
     THEN [ L EXCEPT
              !.tasks    = @ \o Tuple([ t \in 1..Len(status.Tasks) |-> unmarshalTask(status.Tasks[t]) ]),
              !.tasklist = Tuple([ t \in 1..Len(status.Tasks) |-> n + t ]),
              !.snapped  = Len(status.Tasks) = 0,
              !.ctr      = [ c \in DOMAIN @ |-> IF c \in SavedCounters THEN status.ctr[c] ELSE @[c] ] ]
     ELSE [ L EXCEPT
              !.tasks    = @ \o Tuple([ t \in 1..Len(chunks) |-> NewTask(chunks[t].Next, chunks[t].Last) ]),
              !.tasklist = Tuple([ t \in 1..Len(chunks) |-> n + t ]),
              !.ctr      = [ c \in DOMAIN @ |-> IF c \in SavedCounters THEN 0 ELSE @[c] ] ]

\* json.Marshal of an account task: Next, Last and the Next and Last of
\* every storage subtask.
marshalTask(task) ==
  [ Next |-> task.Next, Last |-> task.Last,
    SubTasks |-> [ a \in DOMAIN task.SubTasks |->
                     Tuple([ k \in 1..Len(task.SubTasks[a]) |->
                         [ Next |-> task.SubTasks[a][k].Next, Last |-> task.SubTasks[a][k].Last ] ]) ] ]

\* saveSyncStatus: the tasks of s.tasks and the saved counters are written;
\* the other counters of the record keep their zero value.
saveSyncStatus(L) ==
  [ L EXCEPT !.db.status =
      [ saved |-> TRUE,
        Tasks |-> Tuple([ i \in 1..Len(L.tasklist) |-> marshalTask(L.tasks[L.tasklist[i]]) ]),
        ctr   |-> [ c \in DOMAIN L.ctr |-> IF c \in SavedCounters THEN L.ctr[c] ELSE 0 ] ] ]

NoSubTask == << >>

\* A request object of any of the five classes, as its assigner builds it.
\* task is the handle of the account task (0: the heal task), subTask the
\* <<account, Last>> of the storage subtask.  integrated, reverted, closes
\* and reverts are history fields: what the loop did with the request, how
\* often stale was closed and how often a revert function was called on it.
NewRequest(class, peer, id, task) ==
  [ class |-> class, peer |-> peer, id |-> id,
    stale |-> FALSE, timeout |-> "armed", sender |-> "sending",
    origin |-> 0, limit |-> 0, hashes |-> <<>>, accounts |-> <<>>, roots |-> <<>>,
    task |-> task, subTask |-> NoSubTask,
    integrated |-> FALSE, reverted |-> FALSE, closes |-> 0, reverts |-> 0 ]

\* A request object nothing refers to any more: its sender and its timer are
\* through, no worker holds it, no table and no task points at it.
Collected(req) ==
  [ NewRequest(req.class, "", 0, 0) EXCEPT
      !.stale = TRUE, !.timeout = "stopped", !.sender = "done",
      !.integrated = req.integrated, !.reverted = req.reverted,
      !.closes = req.closes, !.reverts = req.reverts ]

----------------------------------------------------------------------------
(* What the event loop works on.  Every step of the loop maps one such     *)
(* record to the next; panic is set where the Go code would dereference a  *)
(* nil pointer.                                                            *)

LoopState ==
  [ idlers |-> idlers, reqs |-> reqs, requests |-> requests, tasks |-> tasks,
    tasklist |-> tasklist, snapped |-> snapped, healer |-> healer, db |-> db,
    ctr |-> ctr, panic |-> FALSE ]

\* A scheduler that reports nothing pending, whatever it waits for.
PendingNone(h) == 0

\* s.healer.scheduler.Pending()
Pending(h) == Cardinality(h.sched.reqs)

----------------------------------------------------------------------------
(* The account response integrator and the task forwarding *)

\* The index of the first hash above last, or 0.
FirstOver(hashes, last) ==
  LET over == {i \in 1..Len(hashes) : hashes[i] > last}
  IN IF over = {} THEN 0 ELSE Min(over)

\* trimResponse that cuts nothing off.
trimResponseNone(hashes, cont, last) == [ keep |-> Len(hashes), cont |-> cont ]

\* trimResponse without the test for a hash equal to Last.
trimResponseOverflowOnly(hashes, cont, last) ==
  LET cut  == FirstOver(hashes, last)
      keep == IF cut = 0 THEN Len(hashes) ELSE cut - 1
  IN [ keep |-> keep, cont |-> IF cut # 0 THEN FALSE ELSE cont ]

\* The loops of processAccountResponse and processStorageResponse that cut a
\* response at the Last of its task.
trimResponse(hashes, cont, last) ==
  LET cut  == FirstOver(hashes, last)
      keep == IF cut = 0 THEN Len(hashes) ELSE cut - 1
      hit  == \E i \in 1..keep : hashes[i] = last
  IN [ keep |-> keep, cont |-> IF cut # 0 \/ hit THEN FALSE ELSE cont ]

\* forwardAccountTask that takes every complete response for the last one
\* of its task.
forwardAccountTaskEnds(L, t) ==
  LET task == L.tasks[t]
      res  == task.res
      n    == Len(res.hashes)
      inc  == {i \in 1..n : task.needCode[i] \/ task.needState[i]}
      stop == IF inc = {} THEN n + 1 ELSE Min(inc)
      incompletes ==
        UNION { Prove(res.nodes, res.hashes[i]) : i \in { j \in 1..n : j >= stop \/ task.needHeal[j] } }
  IN IF ~res.present THEN L
     ELSE [ L EXCEPT
              !.db.nodes = @ \cup (res.nodes \ (res.bounds \cup res.overflow \cup incompletes)),
              !.db.flat  = @ \cup Range(res.hashes),
              !.tasks[t].res  = NoRes,
              !.tasks[t].Next = IF stop = 1 THEN task.Next ELSE BigToHash(res.hashes[stop - 1] + 1),
              !.tasks[t].done = IF inc = {} THEN TRUE ELSE task.done,
              !.ctr.accountSynced = @ + Len(res.accounts) ]

\* forwardAccountTask: drops the response, counts its accounts and moves
\* Next behind the last account that is complete.
forwardAccountTask(L, t) ==
  LET task == L.tasks[t]
      res  == task.res
      n    == Len(res.hashes)
      inc  == {i \in 1..n : task.needCode[i] \/ task.needState[i]}
      stop == IF inc = {} THEN n + 1 ELSE Min(inc)
      next == IF stop = 1 THEN task.Next ELSE BigToHash(res.hashes[stop - 1] + 1)
      incompletes ==
        UNION { Prove(res.nodes, res.hashes[i]) : i \in { j \in 1..n : j >= stop \/ task.needHeal[j] } }
  IN IF ~res.present THEN L
     ELSE [ L EXCEPT
              !.db.nodes = @ \cup (res.nodes \ (res.bounds \cup res.overflow \cup incompletes)),
              !.db.flat  = @ \cup Range(res.hashes),
              !.tasks[t].res  = NoRes,
              !.tasks[t].Next = next,
              !.tasks[t].done = IF inc = {} THEN ~res.cont ELSE task.done,
              !.ctr.accountSynced = @ + Len(res.accounts) ]

\* processAccountResponse: req is cleared, the response stored and the
\* accounts sorted into code and storage retrievals; a response that needs
\* none is forwarded at once.
processAccountResponse(L, t, response) ==
  LET task  == L.tasks[t]
      trim  == trimResponse(response.hashes, response.cont, task.Last)
      res   == [ present  |-> TRUE,
                 hashes   |-> SubSeq(response.hashes, 1, trim.keep),
                 accounts |-> SubSeq(response.accounts, 1, trim.keep),
                 cont     |-> trim.cont,
                 nodes    |-> response.nodes,
                 bounds   |-> response.bounds,
                 overflow |-> response.overflow \cup
                              UNION { Prove(response.nodes, response.hashes[i])
                                        : i \in (trim.keep + 1)..Len(response.hashes) } ]
      n     == Len(res.accounts)
      nCode == Tuple([ i \in 1..n |-> res.accounts[i].code # emptyCode
                                 /\ res.accounts[i].code \notin L.db.codes ])
      nStat == Tuple([ i \in 1..n |-> res.accounts[i].root # emptyRoot
                                 /\ res.accounts[i].root \notin L.db.roots ])
      resumed == { res.hashes[i] : i \in {j \in 1..n : nStat[j]} } \cap DOMAIN task.SubTasks
      small == { i \in 1..n : nStat[i] /\ res.hashes[i] \notin DOMAIN task.SubTasks }
      rootOf(h) == res.accounts[CHOOSE i \in 1..n : res.hashes[i] = h].root
      filled ==
        [ task EXCEPT
            !.req = 0,
            !.res = res,
            !.needCode  = nCode,
            !.needState = nStat,
            !.needHeal  = Tuple([ i \in 1..n |-> nStat[i] /\ res.hashes[i] \in DOMAIN task.SubTasks ]),
            !.codeTasks = { res.accounts[i].code : i \in {j \in 1..n : nCode[j]} },
            !.stateTasks = [ h \in { res.hashes[i] : i \in small } |-> rootOf(h) ],
            !.SubTasks = [ h \in resumed |->
                             Tuple([ k \in 1..Len(task.SubTasks[h]) |->
                                 [ task.SubTasks[h][k] EXCEPT !.root = rootOf(h) ] ]) ],
            !.pend = Cardinality({i \in 1..n : nCode[i]}) + Cardinality({i \in 1..n : nStat[i]}) ]
      L1 == [ L EXCEPT !.tasks[t] = filled ]
  IN IF filled.pend = 0 THEN forwardAccountTask(L1, t) ELSE L1

----------------------------------------------------------------------------
(* The bytecode response integrator *)

\* processBytecodeResponse: response.codes[i] tells whether the i-th code of
\* the request was delivered.
processBytecodeResponse(L, t, hashes, response) ==
  LET task == L.tasks[t]
      got  == { hashes[i] : i \in {j \in 1..Len(hashes) : response.codes[j]} }
      lost == { hashes[i] : i \in {j \in 1..Len(hashes) : ~response.codes[j]} }
      n    == Len(task.res.accounts)
      hitJ == { j \in 1..n : task.needCode[j] /\ task.res.accounts[j].code \in got }
      L1   == [ L EXCEPT
                  !.tasks[t].codeTasks = @ \cup lost,
                  !.tasks[t].needCode  = Tuple([ j \in 1..n |-> task.needCode[j] /\ j \notin hitJ ]),
                  !.tasks[t].pend      = @ - Cardinality(hitJ),
                  !.ctr.bytecodeSynced = @ + Cardinality(got),
                  !.db.codes           = @ \cup got ]
  IN IF got # {} /\ ~task.res.present
     THEN [ L EXCEPT !.tasks[t].codeTasks = @ \cup lost, !.panic = TRUE ]
     ELSE IF L1.tasks[t].pend = 0 THEN forwardAccountTask(L1, t) ELSE L1

----------------------------------------------------------------------------
(* The storage response integrator *)

\* The subtask of a task with the given identity, as <<account, index>>, or <<>>.
FindSubTask(task, sid) ==
  LET hits == { ak \in { <<a, k>> : a \in DOMAIN task.SubTasks, k \in 1..storageConcurrency } :
                  /\ ak[2] <= Len(task.SubTasks[ak[1]])
                  /\ task.SubTasks[ak[1]][ak[2]].id = sid }
  IN IF sid = NoSubTask \/ hits = {} THEN << >> ELSE CHOOSE ak \in hits : TRUE

\* newSubTasks with the whole key space in one chunk.
newSubTasksWhole(account, root, h) ==
  << NewSubTask(0, hashSpace - 1, root, << account, hashSpace - 1, h >>) >>

\* The chunks a large contract is split into, lines 1763-1791.
newSubTasks(account, root, h) ==
  LET chunks == chunkRange(storageConcurrency, 0, 0)
  IN Tuple([ k \in 1..Len(chunks) |->
         NewSubTask(chunks[k].Next, chunks[k].Last, root, << account, chunks[k].Last, h >>) ])

\* One round of the loop over res.accounts in processStorageResponse.  S
\* carries the loop state L, the response's subTask, cont and overflow, the
\* slots counted so far and the trie nodes put into the batch.  db.roots
\* are the storage roots whose node is on disk.
storageRound(S, t, h, req, response, i) ==
  LET L       == S.L
      task    == L.tasks[t]
      account == req.accounts[i]
      n       == Len(response.hashes)
      last    == i = n
      js      == { j \in 1..Len(task.res.hashes) : task.res.hashes[j] = account }
  IN IF i > n
     THEN [ S EXCEPT !.L.tasks[t].stateTasks = MapPut(@, account, req.roots[i]) ]
     ELSE IF ~task.res.present
     THEN [ S EXCEPT !.L.panic = TRUE ]
     ELSE IF js = {}
     THEN LET put == IF last /\ S.sub # NoSubTask
                     THEN response.nodes[i] \ (response.bounds \cup S.overflow)
                     ELSE response.nodes[i]
          IN [ S EXCEPT !.slots = @ + Len(response.hashes[i]),
                        !.batch = @ \cup put,
                        !.L.db.roots = IF HasRoot(put) THEN @ \cup {req.roots[i]} ELSE @ ]
     ELSE
       LET j      == CHOOSE x \in js : TRUE
           plain  == S.sub = NoSubTask
           filled == plain /\ task.needState[j] /\ (~last \/ ~S.cont)
           large  == plain /\ last /\ S.cont
           create == large /\ account \notin DOMAIN task.SubTasks
           task1  == [ task EXCEPT
                         !.needState[j] = IF filled THEN FALSE ELSE @,
                         !.pend         = IF filled THEN @ - 1 ELSE @,
                         !.needHeal[j]  = IF large THEN TRUE ELSE @,
                         !.SubTasks     = IF create
                                          THEN MapPut(@, account,
                                                      newSubTasks(account, task.res.accounts[j].root, h))
                                          ELSE @ ]
           sub1   == IF create THEN task1.SubTasks[account][1].id ELSE S.sub
           at     == FindSubTask(task1, sub1)
           st     == task1.SubTasks[at[1]][at[2]]
           \* Without a live subtask object the writes go to garbage; the
           \* Last they are cut at is still the one of the identity.
           trim   == trimResponse(response.hashes[i], S.cont, sub1[2])
           kept   == SubSeq(response.hashes[i], 1, trim.keep)
           task2  == IF sub1 = NoSubTask \/ at = << >> THEN task1
                     ELSE [ task1 EXCEPT
                              !.SubTasks[at[1]][at[2]] =
                                 IF trim.cont
                                 THEN [ st EXCEPT !.Next = BigToHash(kept[Len(kept)] + 1) ]
                                 ELSE [ st EXCEPT !.done = TRUE ] ]
           cont2  == IF sub1 = NoSubTask THEN S.cont ELSE trim.cont
           count  == IF sub1 = NoSubTask THEN Len(response.hashes[i]) ELSE Len(kept)
           over2  == IF sub1 = NoSubTask THEN S.overflow
                     ELSE S.overflow \cup
                          UNION { Prove(response.nodes[i], response.hashes[i][l])
                                    : l \in (trim.keep + 1)..Len(response.hashes[i]) }
           put    == IF last /\ sub1 # NoSubTask
                     THEN response.nodes[i] \ (response.bounds \cup over2)
                     ELSE response.nodes[i]
       IN IF sub1 # NoSubTask /\ trim.cont /\ kept = << >>
          THEN [ S EXCEPT !.L.panic = TRUE ]
          ELSE [ S EXCEPT
                   !.L.tasks[t] = task2,
                   !.sub   = sub1,
                   !.cont  = cont2,
                   !.overflow = over2,
                   !.slots = @ + count,
                   !.batch = @ \cup put,
                   !.L.db.roots = IF HasRoot(put) THEN @ \cup {req.roots[i]} ELSE @ ]

RECURSIVE storageRounds(_, _, _, _, _, _)
storageRounds(S, t, h, req, response, i) ==
  IF i > Len(req.accounts) \/ S.L.panic THEN S
  ELSE storageRounds(storageRound(S, t, h, req, response, i), t, h, req, response, i + 1)

\* processStorageResponse for the response to request h.
processStorageResponse(L, h, response) ==
  LET req  == L.requests[h]
      t    == req.task
      at   == FindSubTask(L.tasks[t], req.subTask)
      L0   == IF at = << >> THEN L
              ELSE [ L EXCEPT !.tasks[t].SubTasks[at[1]][at[2]].req = 0 ]
      S    == storageRounds([ L |-> L0, sub |-> req.subTask, cont |-> response.cont,
                              overflow |-> response.overflow, slots |-> 0, batch |-> {} ],
                            t, h, req, response, 1)
      L1   == [ S.L EXCEPT !.ctr.storageSynced = @ + S.slots, !.db.nodes = @ \cup S.batch ]
  IN IF S.L.panic THEN S.L
     ELSE IF L1.tasks[t].pend = 0 THEN forwardAccountTask(L1, t) ELSE L1

----------------------------------------------------------------------------
(* The heal response integrators.  The scheduler is the trie sync of       *)
(* another package: a queue of what Missing has not handed out yet and the *)
(* set of what is requested and not processed.                             *)

\* scheduler.Missing(max): up to max items leave the queue.
Missing(sched, max) ==
  LET q == AsSeq(sched.queue)
  IN { q[i] : i \in 1..(IF max < Len(q) THEN max ELSE Len(q)) }

\* scheduler.Process for every delivered item, then scheduler.Commit.
Process(sched, got) == [ sched EXCEPT !.reqs = @ \ got ]

\* processTrienodeHealResponse.  An item the scheduler does not wait for is
\* answered with trie.ErrNotRequested; the items have no children, so that
\* trie.ErrAlreadyProcessed does not occur.
processTrienodeHealResponse(L, hashes, response) ==
  LET got  == { hashes[i] : i \in {j \in 1..Len(hashes) : response.nodes[j]} }
      lost == { hashes[i] : i \in {j \in 1..Len(hashes) : ~response.nodes[j]} }
  IN [ L EXCEPT !.healer.trieTasks = @ \cup lost,
                !.healer.sched = Process(@, got),
                !.db.healed = @ \cup (got \cap L.healer.sched.reqs),
                !.ctr.trienodeHealSynced = @ + Cardinality(got),
                !.ctr.trienodeHealNops = @ + Cardinality(got \ L.healer.sched.reqs) ]

\* processBytecodeHealResponse
processBytecodeHealResponse(L, hashes, response) ==
  LET got  == { hashes[i] : i \in {j \in 1..Len(hashes) : response.codes[j]} }
      lost == { hashes[i] : i \in {j \in 1..Len(hashes) : ~response.codes[j]} }
  IN [ L EXCEPT !.healer.codeTasks = @ \cup lost,
                !.healer.sched = Process(@, got),
                !.db.healed = @ \cup (got \cap L.healer.sched.reqs),
                !.ctr.bytecodeHealSynced = @ + Cardinality(got),
                !.ctr.bytecodeHealNops = @ + Cardinality(got \ L.healer.sched.reqs) ]

----------------------------------------------------------------------------
(* Task cleanup at the top of the loop *)

\* The body of cleanStorageTasks for one account of one task.
cleanSubTasks(L, t, account) ==
  LET task == L.tasks[t]
      left == SelectSeq(task.SubTasks[account], LAMBDA st : ~st.done)
      n    == Len(task.res.hashes)
      L1   == [ L EXCEPT
                  !.tasks[t].needState = Tuple([ j \in 1..n |-> task.needState[j]
                                                       /\ task.res.hashes[j] # account ]),
                  !.tasks[t].SubTasks  = MapDelete(@, account),
                  !.tasks[t].pend      = @ - 1 ]
  IN IF left # << >> THEN [ L EXCEPT !.tasks[t].SubTasks[account] = left ]
     ELSE IF ~task.res.present THEN [ L EXCEPT !.panic = TRUE ]
     ELSE IF L1.tasks[t].pend = 0 THEN forwardAccountTask(L1, t) ELSE L1

RECURSIVE cleanStorageTasksFrom(_, _, _)
cleanStorageTasksFrom(L, ts, as) ==
  IF L.panic \/ ts = << >> THEN L
  ELSE IF as = << >>
  THEN cleanStorageTasksFrom(L, Tail(ts),
         IF Len(ts) > 1 THEN SortedSeq(DOMAIN L.tasks[ts[2]].SubTasks) ELSE << >>)
  ELSE cleanStorageTasksFrom(cleanSubTasks(L, Head(ts), Head(as)), ts, Tail(as))

cleanStorageTasks(L) ==
  IF L.tasklist = << >> THEN L
  ELSE cleanStorageTasksFrom(L, L.tasklist, SortedSeq(DOMAIN L.tasks[L.tasklist[1]].SubTasks))

\* cleanAccountTasks that drops no task.
cleanAccountTasksKeeps(L) == L

cleanAccountTasks(L) ==
  LET left == SelectSeq(L.tasklist, LAMBDA t : ~L.tasks[t].done)
  IN [ L EXCEPT !.tasklist = left,
                !.snapped  = IF left = << >> THEN TRUE ELSE @ ]

----------------------------------------------------------------------------
(* Reverts (event loop only) *)

\* closeAndUntrack without the delete on the live table.
closeAndKeep(L, h) ==
  [ L EXCEPT
      !.requests[h].stale    = TRUE,
      !.requests[h].closes   = @ + 1,
      !.requests[h].reverted = TRUE,
      !.requests[h].timeout  = IF @ = "armed" THEN "stopped" ELSE @ ]

\* The common head of the five revert functions: close stale, drop the table
\* entry stored under the request's id, stop the timer.
closeAndUntrack(L, h) ==
  LET req == L.requests[h]
  IN [ L EXCEPT
         !.requests[h].stale    = TRUE,
         !.requests[h].closes   = @ + 1,
         !.requests[h].reverted = TRUE,
         !.requests[h].timeout  = IF @ = "armed" THEN "stopped" ELSE @,
         !.reqs[req.class]      = MapDelete(@, req.id) ]

\* A revert that leaves the task pointing at the request.
revertAccountRequestKeepsReq(L, h) == closeAndUntrack(L, h)

revertAccountRequest(L, h) ==
  LET req == L.requests[h]
      L1  == closeAndUntrack(L, h)
  IN IF L.tasks[req.task].req = h THEN [ L1 EXCEPT !.tasks[req.task].req = 0 ] ELSE L1

revertBytecodeRequest(L, h) ==
  LET req == L.requests[h]
  IN [ closeAndUntrack(L, h) EXCEPT !.tasks[req.task].codeTasks = @ \cup Range(req.hashes) ]

RECURSIVE PutAll(_, _, _)
PutAll(m, keys, vals) ==
  IF keys = << >> THEN m ELSE PutAll(MapPut(m, Head(keys), Head(vals)), Tail(keys), Tail(vals))

\* A revert that leaves the accounts and the subtask with the request.
revertStorageRequestDrops(L, h) == closeAndUntrack(L, h)

revertStorageRequest(L, h) ==
  LET req == L.requests[h]
      L1  == closeAndUntrack(L, h)
      at  == FindSubTask(L.tasks[req.task], req.subTask)
  IN IF req.subTask # NoSubTask
     THEN IF at = << >> THEN L1
          ELSE [ L1 EXCEPT !.tasks[req.task].SubTasks[at[1]][at[2]].req = 0 ]
     ELSE [ L1 EXCEPT !.tasks[req.task].stateTasks = PutAll(@, req.accounts, req.roots) ]

revertTrienodeHealRequest(L, h) ==
  [ closeAndUntrack(L, h) EXCEPT !.healer.trieTasks = @ \cup Range(L.requests[h].hashes) ]

revertBytecodeHealRequest(L, h) ==
  [ closeAndUntrack(L, h) EXCEPT !.healer.codeTasks = @ \cup Range(L.requests[h].hashes) ]

\* alreadyReverted without the look at stale.
alreadyRevertedNever(req) == FALSE

\* The select at the head of the five revert functions (lines 1385-1390 and
\* its four copies): whether stale is closed.
alreadyReverted(req) == req.stale

\* revert<Class>Request: nothing happens once stale is closed.
revertRequest(L, h) ==
  LET class == L.requests[h].class
      L0    == [ L EXCEPT !.requests[h].reverts = @ + 1 ]
  IN IF alreadyReverted(L.requests[h]) THEN L0
     ELSE CASE class = "account"      -> revertAccountRequest(L0, h)
            [] class = "bytecode"     -> revertBytecodeRequest(L0, h)
            [] class = "storage"      -> revertStorageRequest(L0, h)
            [] class = "trienodeHeal" -> revertTrienodeHealRequest(L0, h)
            [] class = "bytecodeHeal" -> revertBytecodeHealRequest(L0, h)

\* The second half of revertRequests: every collected request is reverted.
RECURSIVE revertAll(_, _)
revertAll(L, hs) ==
  IF hs = << >> THEN L ELSE revertAll(revertRequest(L, Head(hs)), Tail(hs))

----------------------------------------------------------------------------
(* The assigners.  Each maps the loop state to the set of states it can    *)
(* leave behind: the idle peer comes from a map iteration, the id from     *)
(* rand.Int63.                                                             *)

\* validReqID without the lookup in the live table.
validReqIDNonZero(id, table) == id # 0

\* The test of the id loop (lines 838-847 and its four copies).
validReqID(id, table) == id # 0 /\ id \notin DOMAIN table

\* What assignment would do without the test of lines 822-830.
idlePeersAll(L, class) == L.idlers[class]

\* The idle peers of a class that are not stateless (lines 822-830).
idlePeers(L, class) == { p \in L.idlers[class] : p \notin statelessPeers }

\* Ids are interchangeable, so a draw is 0, an id some request in use
\* carries, or the least id that none carries.
Draws(L) ==
  LET used   == { L.requests[h].id : h \in 1..Len(L.requests) } \ {0}
      unused == (1..MaxId) \ used
  IN {0} \cup used \cup (IF unused = {} THEN {} ELSE {Min(unused)})

reqIDs(L, class) == { id \in Draws(L) : validReqID(id, L.reqs[class]) }

\* The request is entered into the live table and its peer leaves the idle set.
track(L, req) ==
  [ L EXCEPT !.requests = Append(@, req),
             !.reqs[req.class] = MapPut(@, req.id, Len(L.requests) + 1),
             !.idlers[req.class] = @ \ {req.peer} ]

\* Whether a further request can be created: an idle peer that is not
\* stateless, a free id, and room in the model's request budget.
canAssign(L, class) ==
  /\ idlePeers(L, class) # {}
  /\ reqIDs(L, class) # {}
  /\ Len(L.requests) < MaxReqs

\* The subsets of S of size min(max, |S|): what a bounded map iteration takes.
Takes(S, max) ==
  LET k == IF Cardinality(S) < max THEN Cardinality(S) ELSE max
  IN { T \in SUBSET S : Cardinality(T) = k }

RECURSIVE assignAccountFrom(_, _)
assignAccountFrom(L, i) ==
  IF i > Len(L.tasklist) THEN {L}
  ELSE LET t == L.tasklist[i] IN
    IF L.tasks[t].req # 0 \/ L.tasks[t].res.present THEN assignAccountFrom(L, i + 1)
    ELSE IF ~canAssign(L, "account") THEN {L}
    ELSE UNION {
           assignAccountFrom(
             [ track(L, [ NewRequest("account", p, id, t) EXCEPT
                            !.origin = L.tasks[t].Next, !.limit = L.tasks[t].Last ])
               EXCEPT !.tasks[t].req = Len(L.requests) + 1 ],
             i + 1)
           : << p, id >> \in idlePeers(L, "account") \X reqIDs(L, "account") }

assignAccountTasks(L) ==
  IF L.idlers["account"] = {} THEN {L} ELSE assignAccountFrom(L, 1)

RECURSIVE assignBytecodeFrom(_, _)
assignBytecodeFrom(L, i) ==
  IF i > Len(L.tasklist) THEN {L}
  ELSE LET t == L.tasklist[i] IN
    IF ~L.tasks[t].res.present \/ L.tasks[t].codeTasks = {} THEN assignBytecodeFrom(L, i + 1)
    ELSE IF ~canAssign(L, "bytecode") THEN {L}
    ELSE UNION {
           assignBytecodeFrom(
             [ track(L, [ NewRequest("bytecode", pih[1], pih[2], t) EXCEPT
                            !.hashes = AsSeq(pih[3]) ])
               EXCEPT !.tasks[t].codeTasks = @ \ pih[3] ],
             i + 1)
           : pih \in idlePeers(L, "bytecode") \X reqIDs(L, "bytecode")
                       \X Takes(L.tasks[t].codeTasks, maxCodeRequestCount) }

assignBytecodeTasks(L) ==
  IF L.idlers["bytecode"] = {} THEN {L} ELSE assignBytecodeFrom(L, 1)

\* freeSubTask that takes the first subtask, filling or not.
freeSubTaskFirst(task, account) == 1

\* The first subtask of the account that is not filling, as an index, or 0.
freeSubTask(task, account) ==
  LET free == { k \in 1..Len(task.SubTasks[account]) : task.SubTasks[account][k].req = 0 }
  IN IF free = {} THEN 0 ELSE Min(free)

\* What one storage request can ask for (lines 1020-1053): a chunk of a
\* large contract if one is not filling, else a batch of small contracts.
storageWork(task) ==
  LET large == { a \in DOMAIN task.SubTasks : freeSubTask(task, a) # 0 }
  IN IF large # {}
     THEN { [ accounts |-> << a >>,
              roots    |-> << task.SubTasks[a][freeSubTask(task, a)].root >>,
              at       |-> << a, freeSubTask(task, a) >> ] : a \in large }
     ELSE { [ accounts |-> SortedSeq(T),
              roots    |-> Tuple([ k \in 1..Cardinality(T) |-> task.stateTasks[SortedSeq(T)[k]] ]),
              at       |-> << >> ] : T \in Takes(DOMAIN task.stateTasks, maxStorageSetRequestCount) }

storageRequest(L, t, p, id, w) ==
  LET task == L.tasks[t]
      h    == Len(L.requests) + 1
      base == [ NewRequest("storage", p, id, t) EXCEPT !.accounts = w.accounts, !.roots = w.roots ]
      st   == task.SubTasks[w.at[1]][w.at[2]]
  IN IF w.accounts = << >> THEN L
     ELSE IF w.at = << >>
     THEN [ track(L, base) EXCEPT
              !.tasks[t].stateTasks = [ a \in DOMAIN @ \ Range(w.accounts) |-> @[a] ] ]
     ELSE [ track(L, [ base EXCEPT !.subTask = st.id, !.origin = st.Next, !.limit = st.Last ])
            EXCEPT !.tasks[t].SubTasks[w.at[1]][w.at[2]].req = h ]

RECURSIVE assignStorageFrom(_, _)
assignStorageFrom(L, i) ==
  IF i > Len(L.tasklist) THEN {L}
  ELSE LET t == L.tasklist[i] IN
    IF ~L.tasks[t].res.present
       \/ (DOMAIN L.tasks[t].SubTasks = {} /\ DOMAIN L.tasks[t].stateTasks = {})
    THEN assignStorageFrom(L, i + 1)
    ELSE IF ~canAssign(L, "storage") THEN {L}
    ELSE UNION {
           assignStorageFrom(storageRequest(L, t, piw[1], piw[2], piw[3]), i + 1)
           : piw \in idlePeers(L, "storage") \X reqIDs(L, "storage") \X storageWork(L.tasks[t]) }

assignStorageTasks(L) ==
  IF L.idlers["storage"] = {} THEN {L} ELSE assignStorageFrom(L, 1)

\* Lines 1117-1129 and 1225-1237: the heal queues are topped up from the
\* scheduler.
fillHealTasks(h) ==
  LET have == Cardinality(h.trieTasks) + Cardinality(h.codeTasks)
      want == maxTrieRequestCount + maxCodeRequestCount
      more == IF have < want THEN Missing(h.sched, want - have) ELSE {}
  IN [ h EXCEPT !.trieTasks   = @ \cup (more \cap h.sched.nodes),
                !.codeTasks   = @ \cup (more \ h.sched.nodes),
                !.sched.queue = @ \ more ]

RECURSIVE assignTrienodeHealLoop(_)
assignTrienodeHealLoop(L) ==
  IF L.healer.trieTasks = {} /\ Pending(L.healer) = 0 THEN {L}
  ELSE LET L1 == [ L EXCEPT !.healer = fillHealTasks(@) ] IN
    IF L1.healer.trieTasks = {} THEN {L1}
    ELSE IF ~canAssign(L1, "trienodeHeal") THEN {L1}
    ELSE UNION {
           assignTrienodeHealLoop(
             [ track(L1, [ NewRequest("trienodeHeal", pih[1], pih[2], 0) EXCEPT
                             !.hashes = AsSeq(pih[3]) ])
               EXCEPT !.healer.trieTasks = @ \ pih[3] ])
           : pih \in idlePeers(L1, "trienodeHeal") \X reqIDs(L1, "trienodeHeal")
                       \X Takes(L1.healer.trieTasks, maxTrieRequestCount) }

assignTrienodeHealTasks(L) ==
  IF L.idlers["trienodeHeal"] = {} THEN {L} ELSE assignTrienodeHealLoop(L)

RECURSIVE assignBytecodeHealLoop(_)
assignBytecodeHealLoop(L) ==
  IF L.healer.codeTasks = {} /\ Pending(L.healer) = 0 THEN {L}
  ELSE LET L1 == [ L EXCEPT !.healer = fillHealTasks(@) ] IN
    IF L1.healer.codeTasks = {} THEN {L1}
    ELSE IF ~canAssign(L1, "bytecodeHeal") THEN {L1}
    ELSE UNION {
           assignBytecodeHealLoop(
             [ track(L1, [ NewRequest("bytecodeHeal", pih[1], pih[2], 0) EXCEPT
                             !.hashes = AsSeq(pih[3]) ])
               EXCEPT !.healer.codeTasks = @ \ pih[3] ])
           : pih \in idlePeers(L1, "bytecodeHeal") \X reqIDs(L1, "bytecodeHeal")
                       \X Takes(L1.healer.codeTasks, maxCodeRequestCount) }

assignBytecodeHealTasks(L) ==
  IF L.idlers["bytecodeHeal"] = {} THEN {L} ELSE assignBytecodeHealLoop(L)

assignTasks(L, class) ==
  CASE class = "account"      -> assignAccountTasks(L)
    [] class = "bytecode"     -> assignBytecodeTasks(L)
    [] class = "storage"      -> assignStorageTasks(L)
    [] class = "trienodeHeal" -> IF L.tasklist = << >> THEN assignTrienodeHealTasks(L) ELSE {L}
    [] class = "bytecodeHeal" -> IF L.tasklist = << >> THEN assignBytecodeHealTasks(L) ELSE {L}

\* Whether the assigner of the class has a task to look at.  One that has
\* none returns without a change, whatever the registry holds.
hasWork(L, class) ==
  LET live == { L.tasks[L.tasklist[i]] : i \in 1..Len(L.tasklist) }
      heal == L.tasklist = << >>
  IN CASE class = "account"      -> \E task \in live : task.req = 0 /\ ~task.res.present
       [] class = "bytecode"     -> \E task \in live : task.res.present /\ task.codeTasks # {}
       [] class = "storage"      -> \E task \in live : /\ task.res.present
                                                      /\ \/ DOMAIN task.SubTasks # {}
                                                         \/ DOMAIN task.stateTasks # {}
       [] class = "trienodeHeal" -> heal /\ (L.healer.trieTasks # {} \/ Pending(L.healer) > 0)
       [] class = "bytecodeHeal" -> heal /\ (L.healer.codeTasks # {} \/ Pending(L.healer) > 0)

\* The assigner the loop stops at next, from position i of ClassOrder on, or
\* "select" when none of the remaining ones has work.
nextStop(L, i) ==
  LET rest == { k \in i..Len(ClassOrder) : hasWork(L, ClassOrder[k]) }
  IN IF rest = {} THEN "select" ELSE ClassOrder[Min(rest)]

orderOf(class) == CHOOSE k \in 1..Len(ClassOrder) : ClassOrder[k] = class

----------------------------------------------------------------------------
(* Initial state: a constructed Syncer, no peer registered, Sync not called *)

NoHealer == [ trieTasks |-> {}, codeTasks |-> {},
              sched |-> [queue |-> {}, reqs |-> {}, nodes |-> {}] ]

InitOf(scenarios) ==
  /\ env \in scenarios
  /\ peers = {}
  /\ statelessPeers = {}
  /\ idlers = [c \in Classes |-> {}]
  /\ reqs = [c \in Classes |-> EmptyMap]
  /\ requests = << >>
  /\ tasks = << >>
  /\ tasklist = << >>
  /\ healer = NoHealer
  /\ snapped = FALSE
  /\ update = FALSE
  /\ peerJoin = 0
  /\ peerDrop = << >>
  /\ failq = {}
  /\ respq = {}
  /\ pc = "idle"
  /\ dropping = << >>
  /\ cancel = FALSE
  /\ lock = Unlocked
  /\ result = "none"
  /\ ctr = NoCount
  /\ db = [codes |-> {}, roots |-> {}, nodes |-> {}, flat |-> {}, healed |-> {}, status |-> env.status]
  /\ hist = [marked |-> EmptyMap, cleared |-> {}, call |-> << >>, err |-> "none"]

Init == InitOf(Scenarios)

\* Whether the loop's peerJoin and peerDrop subscriptions exist.
Subscribed == pc \notin {"idle", "returned", "panic"}

----------------------------------------------------------------------------
(* Garbage: request objects nothing can reach any more *)

Unreferenced(r, h) ==
  /\ r.sender # "sending"
  /\ r.timeout # "armed"
  /\ \A m \in failq' : m.h # h
  /\ \A m \in respq' : m.h # h
  /\ h \notin Range(dropping')
  /\ ~(r.id \in DOMAIN reqs'[r.class] /\ reqs'[r.class][r.id] = h)
  /\ \A t \in DOMAIN tasks' :
       /\ tasks'[t].req # h
       /\ \A a \in DOMAIN tasks'[t].SubTasks :
            \A k \in 1..Len(tasks'[t].SubTasks[a]) : tasks'[t].SubTasks[a][k].req # h

\* The request objects after a step, those out of reach collected.
Settle(rs) ==
  requests' = Tuple([ h \in 1..Len(rs) |-> IF Unreferenced(rs[h], h) THEN Collected(rs[h]) ELSE rs[h] ])

\* What a step of the loop leaves behind.
Commit(L) ==
  /\ idlers' = L.idlers
  /\ reqs' = L.reqs
  /\ tasks' = L.tasks
  /\ tasklist' = L.tasklist
  /\ snapped' = L.snapped
  /\ healer' = L.healer
  /\ db' = L.db
  /\ ctr' = L.ctr

----------------------------------------------------------------------------
(* Peer registry *)

\* Peer ids are interchangeable: a new one is the first that never connected.
Newcomer == IF Peers \subseteq env.may.seen THEN {} ELSE { CHOOSE p \in Peers \ env.may.seen : TRUE }

\* The test with every id taken for unknown.
registeredNever(p) == FALSE

\* The test both calls start with: whether s.peers has the id.
registered(p) == p \in peers

\* Register: an id that is in s.peers is refused; a new peer enters s.peers
\* and the five idle sets, and the peerJoin feed sends its id.
Register(p) ==
  /\ p \in env.may.seen \cup Newcomer
  /\ IF p \in peers THEN env.may.bad > 0 ELSE env.may.reg > 0
  /\ env' = IF p \in peers THEN [env EXCEPT !.may.bad = @ - 1]
            ELSE [env EXCEPT !.may.reg = @ - 1, !.may.seen = @ \cup {p}]
  /\ IF registered(p)
     THEN /\ hist' = [hist EXCEPT !.call = << "Register", p >>, !.err = "already registered"]
          /\ UNCHANGED << peers, idlers, peerJoin >>
     ELSE /\ hist' = [hist EXCEPT !.call = << "Register", p >>, !.err = "nil"]
          /\ peers' = peers \cup {p}
          /\ idlers' = [c \in Classes |-> idlers[c] \cup {p}]
          /\ peerJoin' = IF Subscribed THEN peerJoin + 1 ELSE peerJoin
  /\ UNCHANGED << statelessPeers, reqs, requests, taskVars, update, peerDrop, failq, respq,
                  loopVars, cancel, lock >>

\* Unregister: an id that is not in s.peers is refused; a peer leaves
\* s.peers, the stateless set and the five idle sets, and the peerDrop feed
\* sends its id.
Unregister(p) ==
  /\ p \in env.may.seen \cup Newcomer
  /\ IF p \in peers THEN env.may.unreg > 0 ELSE env.may.bad > 0
  /\ env' = IF p \in peers THEN [env EXCEPT !.may.unreg = @ - 1]
            ELSE [env EXCEPT !.may.bad = @ - 1]
  /\ IF ~registered(p)
     THEN /\ hist' = [hist EXCEPT !.call = << "Unregister", p >>, !.err = "not registered"]
          /\ UNCHANGED << peers, statelessPeers, idlers, peerDrop >>
     ELSE /\ hist' = [hist EXCEPT !.call = << "Unregister", p >>, !.err = "nil",
                                  !.cleared = @ \cup ({p} \cap DOMAIN hist.marked)]
          /\ peers' = peers \ {p}
          /\ statelessPeers' = statelessPeers \ {p}
          /\ idlers' = [c \in Classes |-> idlers[c] \ {p}]
          /\ peerDrop' = IF Subscribed THEN Append(peerDrop, p) ELSE peerDrop
  /\ UNCHANGED << reqs, requests, taskVars, update, peerJoin, failq, respq, loopVars, cancel, lock >>

----------------------------------------------------------------------------
(* The Sync loop *)

\* The deferred functions of Sync, last one first: the subscriptions end,
\* the live tables are replaced by empty ones, every task is forwarded, the
\* list cleaned and the status saved.
RECURSIVE forwardAll(_, _)
forwardAll(L, ts) ==
  IF ts = << >> THEN L ELSE forwardAll(forwardAccountTask(L, Head(ts)), Tail(ts))

\* The deferred functions with every live request reverted first.
teardownReverting(L) ==
  LET live == { h \in 1..Len(L.requests) :
                  /\ L.requests[h].id \in DOMAIN L.reqs[L.requests[h].class]
                  /\ L.reqs[L.requests[h].class][L.requests[h].id] = h }
      L1   == revertAll(L, SortedSeq(live))
  IN saveSyncStatus(
       cleanAccountTasks(forwardAll([ L1 EXCEPT !.reqs = [c \in Classes |-> EmptyMap] ], L1.tasklist)))

teardown(L) ==
  saveSyncStatus(
    cleanAccountTasks(forwardAll([ L EXCEPT !.reqs = [c \in Classes |-> EmptyMap] ], L.tasklist)))

Return(L, err) ==
  LET T == teardown(L)
  IN /\ Commit(T)
     /\ pc' = "returned"
     /\ result' = err
     /\ peerJoin' = 0
     /\ peerDrop' = << >>
     /\ Settle(T.requests)

\* What a handler of the select leaves behind: the loop is back at the head
\* of an iteration, or gone where the handler dereferenced a nil pointer.
\* pj is what is left on the peerJoin channel.
Handled(L, pj) ==
  /\ Commit(L)
  /\ pc' = IF L.panic THEN "panic" ELSE "loop"
  /\ peerJoin' = pj
  /\ dropping' = << >>
  /\ UNCHANGED << result, peerDrop >>
  /\ Settle(L.requests)

\* The head of an iteration (lines 616-620) and the way to the first
\* assigner that has work.
LoopTop ==
  /\ pc = "loop"
  /\ UNCHANGED << peers, statelessPeers, update, failq, respq, dropping, cancel, lock, hist, env >>
  /\ LET L1 == cleanAccountTasks(cleanStorageTasks(LoopState))
     IN IF L1.panic
        THEN /\ Commit(L1) /\ pc' = "panic"
             /\ UNCHANGED << result, peerJoin, peerDrop >>
             /\ Settle(L1.requests)
        ELSE IF L1.tasklist = << >> /\ Pending(L1.healer) = 0
        THEN Return(L1, "nil")
        ELSE /\ Commit(L1) /\ pc' = nextStop(L1, 1)
             /\ UNCHANGED << result, peerJoin, peerDrop >>
             /\ Settle(L1.requests)

\* state.NewStateSync with the database taken for empty.
NewStateSyncBlind(database) == env.nodes \cup env.codes

\* state.NewStateSync(root, s.db, ...): the scheduler asks for the trie nodes
\* and bytecodes of the state that the database lacks.
NewStateSync(database) == (env.nodes \cup env.codes) \ database.healed

\* Sync up to the loop: a new heal task whose scheduler asks for what the
\* database lacks, an empty stateless set, the status loaded.  Without a
\* task and with nothing to heal Sync returns before anything is deferred.
SyncStart ==
  /\ pc \in {"idle", "returned"}
  /\ env.may.sync > 0
  /\ ~cancel
  /\ env' = [env EXCEPT !.may.sync = @ - 1]
  /\ UNCHANGED << peers, update, failq, respq, cancel, lock >>
  /\ statelessPeers' = {}
  /\ hist' = [hist EXCEPT !.marked = EmptyMap, !.cleared = {}]
  /\ LET items == NewStateSync(db)
         L == loadSyncStatus(
                [ LoopState EXCEPT
                    !.healer = [ NoHealer EXCEPT !.sched = [ queue |-> items, reqs |-> items,
                                                             nodes |-> env.nodes ] ] ],
                db.status)
     IN IF L.tasklist = << >> /\ Pending(L.healer) = 0
        THEN /\ Commit(L) /\ pc' = "returned" /\ result' = "nil"
             /\ UNCHANGED << peerJoin, peerDrop, dropping >>
             /\ Settle(L.requests)
        ELSE Handled(L, peerJoin)

\* One call of assign<Class>Tasks.
Assign ==
  /\ pc \in Classes
  /\ \E L \in assignTasks(LoopState, pc) :
       /\ Commit(L)
       /\ pc' = nextStop(L, orderOf(pc) + 1)
       /\ lock' = Unlocked
       /\ UNCHANGED << peers, statelessPeers, chans, dropping, result, cancel, hist, env >>
       /\ Settle(L.requests)

\* case <-s.update
SelUpdate ==
  /\ pc = "select"
  /\ update
  /\ update' = FALSE
  /\ UNCHANGED << peers, statelessPeers, failq, respq, cancel, lock, hist, env >>
  /\ Handled(LoopState, peerJoin)

\* case <-peerJoin
SelPeerJoin ==
  /\ pc = "select"
  /\ peerJoin > 0
  /\ UNCHANGED << peers, statelessPeers, update, failq, respq, cancel, lock, hist, env >>
  /\ Handled(LoopState, peerJoin - 1)

\* case id := <-peerDrop, and the first half of revertRequests: under the
\* lock, the live requests of the peer are gathered.
SelPeerDrop ==
  /\ pc = "select"
  /\ peerDrop # << >>
  /\ peerDrop' = Tail(peerDrop)
  /\ dropping' = LET hs == { h \in 1..Len(requests) :
                               /\ requests[h].peer = Head(peerDrop)
                               /\ requests[h].id \in DOMAIN reqs[requests[h].class]
                               /\ reqs[requests[h].class][requests[h].id] = h }
                 IN SortedSeq(hs)
  /\ pc' = "revert"
  /\ UNCHANGED << registry, requests, taskVars, update, peerJoin, failq, respq, result,
                  cancel, lock, hist, env >>

\* The second half of revertRequests.
RevertDropped ==
  /\ pc = "revert"
  /\ UNCHANGED << peers, statelessPeers, update, failq, respq, cancel, lock, hist, env >>
  /\ Handled(revertAll(LoopState, dropping), peerJoin)

\* case <-cancel
SelCancel ==
  /\ pc = "select"
  /\ cancel
  /\ dropping' = << >>
  /\ UNCHANGED << peers, statelessPeers, update, failq, respq, cancel, lock, hist, env >>
  /\ Return(LoopState, "ErrCancelled")

\* case req := <-s.<class>ReqFails
SelReqFail(m) ==
  /\ pc = "select"
  /\ m \in failq
  /\ failq' = failq \ {m}
  /\ UNCHANGED << peers, statelessPeers, update, respq, cancel, lock, hist, env >>
  /\ Handled(revertRequest(LoopState, m.h), peerJoin)

\* process<Class>Response for the response to request h.
processResponse(L, h, res) ==
  LET req == L.requests[h]
      L1  == [ L EXCEPT !.requests[h].integrated = TRUE ]
  IN CASE req.class = "account"      -> processAccountResponse(L1, req.task, res)
       [] req.class = "bytecode"     -> processBytecodeResponse(L1, req.task, req.hashes, res)
       [] req.class = "storage"      -> processStorageResponse(L1, h, res)
       [] req.class = "trienodeHeal" -> processTrienodeHealResponse(L1, req.hashes, res)
       [] req.class = "bytecodeHeal" -> processBytecodeHealResponse(L1, req.hashes, res)

\* case res := <-s.<class>Resps
SelResp(m) ==
  /\ pc = "select"
  /\ m \in respq
  /\ respq' = respq \ {m}
  /\ UNCHANGED << peers, statelessPeers, update, failq, cancel, lock, hist, env >>
  /\ Handled(processResponse(LoopState, m.h, m.res), peerJoin)

\* The caller of Sync closes the cancel channel.
Cancel ==
  /\ env.may.cancel > 0
  /\ Subscribed
  /\ ~cancel
  /\ cancel' = TRUE
  /\ env' = [env EXCEPT !.may.cancel = @ - 1]
  /\ UNCHANGED << registry, requests, taskVars, chans, loopVars, hist, lock >>

----------------------------------------------------------------------------
(* Timers and senders *)

\* The time.AfterFunc of a request runs: scheduleRevert<Class>Request.
TimerFire(h) ==
  /\ env.may.faults > 0
  /\ requests[h].timeout = "armed"
  /\ failq' = failq \cup { [h |-> h, src |-> "timer"] }
  /\ env' = [env EXCEPT !.may.faults = @ - 1]
  /\ UNCHANGED << registry, taskVars, update, peerJoin, peerDrop, respq, loopVars, cancel, lock, hist >>
  /\ Settle([requests EXCEPT ![h].timeout = "fired"])

\* peer.Request<Class> returns an error: scheduleRevert<Class>Request.
SendFail(h) ==
  /\ env.may.faults > 0
  /\ requests[h].sender = "sending"
  /\ failq' = failq \cup { [h |-> h, src |-> "send"] }
  /\ env' = [env EXCEPT !.may.faults = @ - 1]
  /\ UNCHANGED << registry, taskVars, update, peerJoin, peerDrop, respq, loopVars, cancel, lock, hist >>
  /\ Settle([requests EXCEPT ![h].sender = "failed"])

\* A worker inside scheduleRevert<Class>Request takes the cancel or the
\* stale case of its select.
FailGiveUp(m) ==
  /\ m \in failq
  /\ cancel \/ requests[m.h].stale
  /\ failq' = failq \ {m}
  /\ UNCHANGED << registry, taskVars, update, peerJoin, peerDrop, respq, loopVars, cancel, lock,
                  hist, env >>
  /\ Settle(requests)

\* A worker holding a response takes the cancel or the stale case of its select.
RespGiveUp(m) ==
  /\ m \in respq
  /\ cancel \/ requests[m.h].stale
  /\ respq' = respq \ {m}
  /\ UNCHANGED << registry, taskVars, update, peerJoin, peerDrop, failq, loopVars, cancel, lock,
                  hist, env >>
  /\ Settle(requests)

\* The goroutines counted by s.pend: a sender runs from its go statement
\* until peer.Request<Class> has returned and, after an error, until it has
\* left scheduleRevert<Class>Request.
pendWorkers ==
  { h \in 1..Len(requests) : requests[h].sender = "sending" }
    \cup { m.h : m \in { x \in failq : x.src = "send" } }

----------------------------------------------------------------------------
(* What an honest peer answers *)

\* How many of the keys a server returns at most: up to the first at or
\* behind the limit.
Served(keys, limit) ==
  LET over == { i \in 1..Len(keys) : keys[i] >= limit }
  IN IF over = {} THEN Len(keys) ELSE Min(over)

\* The prefixes of the keys from origin on that a server may return.
Ranges(all, origin, limit) ==
  LET keys == SortedSeq({ k \in all : k >= origin })
      most == Served(keys, limit)
  IN { SubSeq(keys, 1, n) : n \in (IF keys = << >> THEN 0 ELSE 1)..most }

Rejection == [kind |-> "empty"]

\* An account range with its proof.  The empty trie has no node to prove a
\* range with: its reply has no hash, no account and no proof, which is what
\* OnAccounts takes for a rejection.
AccountReplies(req) ==
  IF DOMAIN env.world = {} THEN {Rejection}
  ELSE { [ kind |-> "data", hashes |-> r, accounts |-> Tuple([ i \in 1..Len(r) |-> env.world[r[i]] ]) ]
         : r \in Ranges(DOMAIN env.world, req.origin, req.limit) }

\* The non-empty selections of the requested hashes, in request order.
ItemReplies(req) ==
  { [ kind |-> "data",
      hashes |-> SelectSeq(req.hashes, LAMBDA x : x \in T) ]
    : T \in SUBSET Range(req.hashes) \ {{}} }

\* A storage reply: the first accounts in full, the last one in full or as a
\* proven range.
StorageReplies(req) ==
  LET n       == Len(req.accounts)
      full(i) == [ root |-> req.roots[i], keys |-> SortedSeq(env.slots[req.roots[i]]) ]
      limit   == IF req.subTask = NoSubTask THEN hashSpace - 1 ELSE req.limit
  IN UNION {
       { [ kind |-> "data", proof |-> FALSE,
           sets |-> Tuple([ i \in 1..k |-> full(i) ]) ] : x \in IF req.origin = 0 THEN {0} ELSE {} }
       \cup
       { [ kind |-> "data", proof |-> TRUE,
           sets |-> Tuple([ i \in 1..k |-> IF i < k THEN full(i)
                                     ELSE [ root |-> req.roots[k], keys |-> r ] ]) ]
         : r \in { q \in Ranges(env.slots[req.roots[k]], req.origin, limit) :
                     req.origin # 0 \/ Len(q) < Cardinality(env.slots[req.roots[k]]) } }
       : k \in 1..n }

----------------------------------------------------------------------------
(* Validation of a reply against the request found under its id *)

\* trie.VerifyRangeProof with a proof: the keys are the first ones of the
\* trie from origin on, without a gap; cont tells whether more follow.
VerifyRangeProof(all, origin, keys) ==
  LET expect == SortedSeq({ k \in all : k >= origin })
  IN [ ok   |-> /\ Len(keys) <= Len(expect)
                /\ keys = SubSeq(expect, 1, Len(keys))
                /\ (keys # << >> \/ expect = << >>),
       cont |-> Len(keys) < Len(expect) ]

\* trie.VerifyRangeProof without a proof: the keys are the whole trie.
VerifyWholeTrie(all, keys) == keys = SortedSeq(all)

\* The matching loop of onByteCodes, OnTrieNodes and onHealByteCodes: the
\* delivered items must follow the order of the request.
inOrder(wanted, got) ==
  /\ Range(got) \subseteq Range(wanted)
  /\ \A i, j \in 1..Len(got) :
       i < j => \E a, b \in 1..Len(wanted) : a < b /\ wanted[a] = got[i] /\ wanted[b] = got[j]

validAccounts(req, payload) ==
  LET v  == VerifyRangeProof(DOMAIN env.world, req.origin, payload.hashes)
      tr == Reconstructed("account", DOMAIN env.world, req.origin, payload.hashes, TRUE)
  IN [ ok  |-> v.ok,
       res |-> [ hashes |-> payload.hashes, accounts |-> payload.accounts, cont |-> v.cont,
                 nodes |-> tr.nodes, bounds |-> tr.bounds, overflow |-> {} ] ]

validCodes(req, payload) ==
  [ ok  |-> inOrder(req.hashes, payload.hashes),
    res |-> [ codes |-> Tuple([ j \in 1..Len(req.hashes) |-> req.hashes[j] \in Range(payload.hashes) ]) ] ]

validNodes(req, payload) ==
  [ ok  |-> inOrder(req.hashes, payload.hashes),
    res |-> [ nodes |-> Tuple([ j \in 1..Len(req.hashes) |-> req.hashes[j] \in Range(payload.hashes) ]) ] ]

validStorage(req, payload) ==
  LET n    == Len(payload.sets)
      trie(i) == IF i <= Len(req.roots) /\ req.roots[i] \in DOMAIN env.slots
                 THEN env.slots[req.roots[i]] ELSE {}
      last == VerifyRangeProof(trie(n), req.origin, payload.sets[n].keys)
      okAt(i) == /\ payload.sets[i].root = req.roots[i]
                 /\ IF i = n /\ payload.proof THEN last.ok
                    ELSE VerifyWholeTrie(trie(i), payload.sets[i].keys)
      tr(i) == Reconstructed("storage", trie(i), req.origin, payload.sets[i].keys, i = n /\ payload.proof)
  IN [ ok  |-> n <= Len(req.accounts) /\ \A i \in 1..n : okAt(i),
       res |-> [ hashes |-> Tuple([ i \in 1..n |-> payload.sets[i].keys ]),
                 cont   |-> payload.proof /\ last.cont,
                 nodes  |-> Tuple([ i \in 1..n |-> tr(i).nodes ]),
                 bounds |-> IF payload.proof THEN tr(n).bounds ELSE {},
                 overflow |-> {} ] ]

validate(req, payload) ==
  CASE req.class = "account"      -> validAccounts(req, payload)
    [] req.class = "bytecode"     -> validCodes(req, payload)
    [] req.class = "storage"      -> validStorage(req, payload)
    [] req.class = "trienodeHeal" -> validNodes(req, payload)
    [] req.class = "bytecodeHeal" -> validCodes(req, payload)

----------------------------------------------------------------------------
(* The delivery callbacks *)

\* The callback of request h is inside its locked section (s.lock.Lock()).
Callback(h) == [by |-> "callback", h |-> h]

\* A callback that goes on to its channel send with the lock held.
unlockNever(h) == Callback(h)

\* s.lock.Unlock() on every way out of the locked section of a callback,
\* ahead of scheduleRevert<Class>Request and of the send on req.deliver.
unlock(h) == Unlocked

\* The body the five callbacks share.  h0 is the request the peer answers:
\* its sender is through.
deliver(class, p, id, payload, h0) ==
  LET sent  == [requests EXCEPT ![h0].sender = "done"]
      known == id \in DOMAIN reqs[class]
      h     == reqs[class][id]
      req   == sent[h]
      live  == known /\ req.timeout = "armed"
      v     == validate(req, payload)
      fail  == live /\ (payload.kind = "empty" \/ ~v.ok)
  IN /\ idlers' = IF p \in peers THEN [idlers EXCEPT ![class] = @ \cup {p}] ELSE idlers
     /\ update' = TRUE
     /\ reqs' = IF known THEN [reqs EXCEPT ![class] = MapDelete(@, id)] ELSE reqs
     /\ statelessPeers' = IF live /\ payload.kind = "empty"
                          THEN statelessPeers \cup {p} ELSE statelessPeers
     /\ hist' = IF live /\ payload.kind = "empty"
                THEN [hist EXCEPT !.marked = (p :> Len(requests)) @@ @, !.cleared = @ \ {p}]
                ELSE hist
     /\ failq' = IF fail THEN failq \cup { [h |-> h, src |-> "callback"] } ELSE failq
     /\ respq' = IF live /\ ~fail THEN respq \cup { [h |-> h, res |-> v.res] } ELSE respq
     /\ env' = IF payload.kind = "empty" /\ env.may.empty > 0
               THEN [env EXCEPT !.may.empty = @ - 1] ELSE env
     /\ lock' = unlock(h0)
     /\ UNCHANGED << peers, taskVars, peerJoin, peerDrop, loopVars, cancel >>
     /\ Settle(IF live THEN [sent EXCEPT ![h].timeout = "stopped"] ELSE sent)

OnAccounts(p, id, payload, h0) == deliver("account", p, id, payload, h0)

\* OnByteCodes hands the packet to onByteCodes or to onHealByteCodes.
OnByteCodes(p, id, payload, h0) ==
  deliver(IF ~snapped THEN "bytecode" ELSE "bytecodeHeal", p, id, payload, h0)

OnStorage(p, id, payload, h0) == deliver("storage", p, id, payload, h0)

OnTrieNodes(p, id, payload, h0) == deliver("trienodeHeal", p, id, payload, h0)

\* The replies a request can still get: data, or a rejection while the
\* scenario allows one.
Replies(h, data) ==
  IF requests[h].sender # "sending" THEN {}
  ELSE data \cup (IF env.may.empty > 0 THEN {Rejection} ELSE {})

ReplyAccounts(h) ==
  /\ requests[h].class = "account"
  /\ \E payload \in Replies(h, AccountReplies(requests[h])) :
       OnAccounts(requests[h].peer, requests[h].id, payload, h)

ReplyByteCodes(h) ==
  /\ requests[h].class \in {"bytecode", "bytecodeHeal"}
  /\ \E payload \in Replies(h, ItemReplies(requests[h])) :
       OnByteCodes(requests[h].peer, requests[h].id, payload, h)

ReplyStorage(h) ==
  /\ requests[h].class = "storage"
  /\ \E payload \in Replies(h, StorageReplies(requests[h])) :
       OnStorage(requests[h].peer, requests[h].id, payload, h)

ReplyTrieNodes(h) ==
  /\ requests[h].class = "trienodeHeal"
  /\ \E payload \in Replies(h, ItemReplies(requests[h])) :
       OnTrieNodes(requests[h].peer, requests[h].id, payload, h)

----------------------------------------------------------------------------
Handles == 1..Len(requests)

Next ==
  \/ \E p \in Peers : Register(p)
  \/ \E p \in Peers : Unregister(p)
  \/ SyncStart
  \/ LoopTop
  \/ Assign
  \/ SelUpdate
  \/ SelPeerJoin
  \/ SelPeerDrop
  \/ RevertDropped
  \/ SelCancel
  \/ \E m \in failq : SelReqFail(m)
  \/ \E m \in respq : SelResp(m)
  \/ Cancel
  \/ \E h \in Handles : TimerFire(h)
  \/ \E h \in Handles : SendFail(h)
  \/ \E m \in failq : FailGiveUp(m)
  \/ \E m \in respq : RespGiveUp(m)
  \/ \E h \in Handles : ReplyAccounts(h)
  \/ \E h \in Handles : ReplyByteCodes(h)
  \/ \E h \in Handles : ReplyStorage(h)
  \/ \E h \in Handles : ReplyTrieNodes(h)

Spec == Init /\ [][Next]_vars

\* Peers that leave and come back around plain accounts: the steps that can
\* be taken without a timer, a send failure, a rejection or a cancel.  A
\* request still fails where a late reply meets another request under its id.
NextChurn ==
  \/ \E p \in Peers : Register(p)
  \/ \E p \in Peers : Unregister(p)
  \/ SyncStart
  \/ LoopTop
  \/ Assign
  \/ SelUpdate
  \/ SelPeerJoin
  \/ SelPeerDrop
  \/ RevertDropped
  \/ \E m \in failq : SelReqFail(m)
  \/ \E m \in respq : SelResp(m)
  \/ \E m \in respq : RespGiveUp(m)
  \/ \E h \in Handles : ReplyAccounts(h)

SpecChurn == InitOf({ Rejoin, Churn }) /\ [][NextChurn]_vars

\* Cycles that start without a task, end with a saved status or are followed
\* by another call of Sync.
SpecCycles == InitOf(Cycles) /\ [][Next]_vars

\* The heal phase with a peer that leaves: the steps that can be taken
\* without a timer, a send failure, a rejection or a cancel.
NextHeal ==
  \/ \E p \in Peers : Register(p)
  \/ \E p \in Peers : Unregister(p)
  \/ SyncStart
  \/ LoopTop
  \/ Assign
  \/ SelUpdate
  \/ SelPeerJoin
  \/ SelPeerDrop
  \/ RevertDropped
  \/ \E m \in respq : SelResp(m)
  \/ \E m \in respq : RespGiveUp(m)
  \/ \E h \in Handles : ReplyByteCodes(h)
  \/ \E h \in Handles : ReplyTrieNodes(h)

SpecHeal == InitOf({ Departure }) /\ [][NextHeal]_vars

\* Two peers that leave during one cycle.
SpecExodus == InitOf({ Exodus }) /\ [][NextChurn]_vars

\* Peers that leave and come back, and a peer that rejects a request: the
\* steps that can be taken without a timer, a send failure or a cancel.
NextTurn == NextChurn \/ \E m \in failq : FailGiveUp(m)

SpecTurned == InitOf({ Turned }) /\ [][NextTurn]_vars

\* The snap phase and the heal phase of one cycle: the steps that can be
\* taken with peers that stay, answer and reject nothing.
NextPhases ==
  \/ \E p \in Peers : Register(p)
  \/ SyncStart
  \/ LoopTop
  \/ Assign
  \/ SelUpdate
  \/ SelPeerJoin
  \/ \E m \in respq : SelResp(m)
  \/ \E h \in Handles : ReplyAccounts(h)
  \/ \E h \in Handles : ReplyTrieNodes(h)

SpecPhases == InitOf({ Phased }) /\ [][NextPhases]_vars

\* Whether the peer owns a live storage request.
HoldsStorage(p) ==
  \E h \in Handles :
    /\ requests[h].class = "storage"
    /\ requests[h].peer = p
    /\ requests[h].id \in DOMAIN reqs["storage"]
    /\ reqs["storage"][requests[h].id] = h

\* Storage retrieval around a peer drop: the only registered peer leaves
\* while it owns a storage request; no timer, send failure, rejection or
\* cancel.
NextEstates ==
  \/ \E p \in Peers : Register(p)
  \/ \E p \in Peers : peers = {p} /\ HoldsStorage(p) /\ Unregister(p)
  \/ SyncStart
  \/ LoopTop
  \/ Assign
  \/ SelUpdate
  \/ SelPeerJoin
  \/ SelPeerDrop
  \/ RevertDropped
  \/ \E m \in respq : SelResp(m)
  \/ \E m \in respq : RespGiveUp(m)
  \/ \E h \in Handles : ReplyAccounts(h)
  \/ \E h \in Handles : ReplyStorage(h)

SpecEstates == InitOf({ Estates }) /\ [][NextEstates]_vars

SpecManor == InitOf({ Manor }) /\ [][NextEstates]_vars

\* The steps of the cycle where requests time out while peers come and go.
NextStall ==
  \/ NextChurn
  \/ \E h \in Handles : TimerFire(h)

SpecStall == InitOf({ Stall }) /\ [][NextStall]_vars

\* A reply on a connection that is up: the peer of the request is registered.
ReplyConnected(h) ==
  /\ requests[h].peer \in peers
  /\ ReplyAccounts(h)

\* The steps of the goroutine that runs Sync.
LoopStep ==
  \/ LoopTop
  \/ Assign
  \/ SelUpdate
  \/ SelPeerJoin
  \/ SelPeerDrop
  \/ RevertDropped
  \/ \E m \in respq : SelResp(m)

\* A peer that leaves with a request unanswered and stays away, and the
\* peers that stay: every registered peer is on its first connection.
NextDrop ==
  \/ \E p \in Newcomer : Register(p)
  \/ \E p \in Peers : Unregister(p)
  \/ SyncStart
  \/ LoopStep
  \/ \E h \in Handles : ReplyConnected(h)

\* Whether the goroutine of Sync can take a step: it runs an iteration, or
\* it waits in the select with one of the channels ready.
LoopReady ==
  \/ pc \in Classes \cup {"loop", "revert"}
  \/ pc = "select" /\ (update \/ peerJoin > 0 \/ peerDrop # << >> \/ respq # {})

\* A step of the goroutine of Sync, told by its position: under NextDrop the
\* steps of LoopStep are the steps that move pc while LoopReady holds, and
\* LoopReady holds where LoopStep is enabled.
LoopMoves ==
  /\ LoopReady
  /\ pc' \in Classes \cup {"loop", "revert", "select", "returned", "panic"}

\* The goroutine of Sync is scheduled whenever it can take a step, and a
\* connected peer answers every request.
SpecDrop ==
  /\ InitOf({ Handover })
  /\ [][NextDrop]_vars
  /\ WF_pc(LoopMoves)
  /\ WF_vars(\E h \in Handles : ReplyConnected(h))

\* A first cycle with peers that stay and answer every account request in
\* time: no timer, send failure, rejection, cancel or peer drop.
NextSolo ==
  \/ \E p \in Peers : Register(p)
  \/ SyncStart
  \/ LoopTop
  \/ Assign
  \/ SelUpdate
  \/ SelPeerJoin
  \/ \E m \in respq : SelResp(m)
  \/ \E h \in Handles : ReplyAccounts(h)

\* The goroutine of Sync is scheduled whenever it can take a step, and the
\* peers answer every request.
SpecSolo ==
  /\ InitOf(Solos)
  /\ [][NextSolo]_vars
  /\ WF_pc(LoopMoves)
  /\ WF_vars(\E h \in Handles : ReplyAccounts(h))

\* Whether the peer owns a live account request.
HoldsAccount(p) ==
  \E h \in Handles :
    /\ requests[h].class = "account"
    /\ requests[h].peer = p
    /\ requests[h].id \in DOMAIN reqs["account"]
    /\ reqs["account"][requests[h].id] = h

\* A resumed large contract around a peer drop and a cancel: a peer leaves
\* while it owns an account request; no timer, send failure or rejection.
NextLegacy ==
  \/ \E p \in Peers : Register(p)
  \/ \E p \in Peers : HoldsAccount(p) /\ Unregister(p)
  \/ SyncStart
  \/ LoopTop
  \/ Assign
  \/ SelUpdate
  \/ SelPeerJoin
  \/ SelPeerDrop
  \/ RevertDropped
  \/ SelCancel
  \/ \E m \in respq : SelResp(m)
  \/ \E m \in respq : RespGiveUp(m)
  \/ Cancel
  \/ \E h \in Handles : ReplyAccounts(h)
  \/ \E h \in Handles : ReplyStorage(h)

SpecLegacy == InitOf({ Legacy }) /\ [][NextLegacy]_vars

\* A first cycle whose replies reach over the end of a chunk, with peers
\* that stay and answer, and a cancel.
NextBorder ==
  \/ \E p \in Peers : Register(p)
  \/ SyncStart
  \/ LoopTop
  \/ Assign
  \/ SelUpdate
  \/ SelPeerJoin
  \/ SelCancel
  \/ \E m \in respq : SelResp(m)
  \/ \E m \in respq : RespGiveUp(m)
  \/ Cancel
  \/ \E h \in Handles : ReplyAccounts(h)
  \/ \E h \in Handles : ReplyByteCodes(h)

SpecBorder == InitOf({ Border, Solo(5) }) /\ [][NextBorder]_vars

\* A contract whose storage is fetched in chunks, around a peer drop.
SpecGrange == InitOf({ Grange }) /\ [][NextEstates]_vars


----------------------------------------------------------------------------
(* The registry lock *)

\* Everything but the lock.
guarded == << peers, statelessPeers, idlers, reqs, requests, tasks, tasklist, healer,
             snapped, update, peerJoin, peerDrop, failq, respq, pc, dropping, cancel,
             result, ctr, db, hist, env >>

\* assign<Class>Tasks takes the lock (s.lock.Lock() at its head).
LockAssign ==
  /\ pc \in Classes
  /\ lock = Unlocked
  /\ lock' = Loop
  /\ UNCHANGED guarded

\* The callback of a packet that answers request h takes the lock.
LockCallback(h) ==
  /\ requests[h].class \in {"account", "storage"}
  /\ requests[h].sender = "sending"
  /\ lock = Unlocked
  /\ lock' = Callback(h)
  /\ UNCHANGED guarded

\* The steps of a cycle with the sections of the lock spelled out: the
\* assigners and the callbacks hold the lock from one step to the next, and
\* every other step that takes the lock waits until it is free.
NextLock ==
  \/ \E p \in Peers : lock = Unlocked /\ Register(p)
  \/ \E p \in Peers : lock = Unlocked /\ peers = {p} /\ HoldsStorage(p) /\ Unregister(p)
  \/ lock = Unlocked /\ SyncStart
  \/ lock = Unlocked /\ LoopTop
  \/ LockAssign
  \/ lock = Loop /\ Assign
  \/ SelUpdate
  \/ SelPeerJoin
  \/ lock = Unlocked /\ SelPeerDrop
  \/ lock = Unlocked /\ RevertDropped
  \/ \E m \in failq : lock = Unlocked /\ SelReqFail(m)
  \/ \E m \in failq : FailGiveUp(m)
  \/ \E m \in respq : SelResp(m)
  \/ \E m \in respq : RespGiveUp(m)
  \/ \E h \in Handles : TimerFire(h)
  \/ \E h \in Handles : LockCallback(h)
  \/ \E h \in Handles : lock = Callback(h) /\ ReplyAccounts(h)
  \/ \E h \in Handles : lock = Callback(h) /\ ReplyStorage(h)

SpecLock == InitOf({ Latch }) /\ [][NextLock]_vars
----------------------------------------------------------------------------
(* Properties *)

\* The request is the one its class's live table holds under its id.
Live(h) ==
  /\ requests[h].id \in DOMAIN reqs[requests[h].class]
  /\ reqs[requests[h].class][requests[h].id] = h

\* The live requests of a class that a peer owns.
Owned(p, class) == { h \in Handles : Live(h) /\ requests[h].class = class /\ requests[h].peer = p }

\* The live requests of a class that fill a task.
Filling(t, class) == { h \in Handles : Live(h) /\ requests[h].class = class /\ requests[h].task = t }

\* The requests a step creates.
Created == (DOMAIN requests') \ DOMAIN requests

\* The tasks of the list, in its order.
Listed == [ i \in 1..Len(tasklist) |-> tasks[tasklist[i]] ]

\* Every storage subtask of the tasks in the list.
SubTasksListed ==
  UNION { UNION { Range(Listed[i].SubTasks[a]) : a \in DOMAIN Listed[i].SubTasks }
          : i \in 1..Len(tasklist) }

\* C1: in every reachable state and for each of the five classes, no peer
\* owns more than one request of the class's live table.
C1_OneLiveRequestPerPeer ==
  \A p \in Peers : \A class \in Classes : Cardinality(Owned(p, class)) <= 1

\* C2: every account task that is not done has at most one live account
\* request, at most one live bytecode request and at most one live storage
\* request filling it.
C2_OneRequestPerTask ==
  \A i \in 1..Len(tasklist) :
    ~Listed[i].done =>
      \A class \in {"account", "bytecode", "storage"} :
        Cardinality(Filling(tasklist[i], class)) <= 1

\* C3: no request has its response integrated by the loop and is also
\* reverted by the loop, in either order.
C3_IntegratedOrReverted ==
  \A h \in Handles : ~(requests[h].integrated /\ requests[h].reverted)

\* C4: while a cycle runs, every registered peer is, for every class, either
\* in the idle set or the owner of a live request, never both and never
\* neither.
C4_IdleOrBusy ==
  Subscribed =>
    \A p \in peers : \A class \in Classes :
      (p \in idlers[class]) # (Owned(p, class) # {})

\* C5 as stated: once a peer id is marked stateless in a cycle, no assigner
\* creates a request for it for the rest of the cycle.
C5_StatelessNeverAssigned ==
  [][ \A h \in Created : requests'[h].peer \notin DOMAIN hist.marked ]_vars

\* C5 amended: a peer id marked stateless in a cycle gets no request from any
\* assigner for the rest of the cycle unless it was unregistered after the
\* mark.
C5_StatelessSkippedUntilUnregistered ==
  [][ \A h \in Created :
        requests'[h].peer \in DOMAIN hist.marked => requests'[h].peer \in hist.cleared ]_vars

\* A peer is marked stateless, still registered and idle, and a request of
\* the same class was created after the mark and is live.
C5_Witness ==
  \E p \in (DOMAIN hist.marked) \ hist.cleared : \E h \in Handles :
    /\ h > hist.marked[p]
    /\ Live(h)
    /\ p \in peers
    /\ p \in idlers[requests[h].class]
    /\ requests[h].peer # p

\* The intervals [Next, Last] of the given tasks are disjoint, ascending and
\* contiguous, and their union is the hash space.
Partition(ts) ==
  /\ \A i \in 1..Len(ts) : ts[i].Next <= ts[i].Last
  /\ \A i \in 1..(Len(ts) - 1) : ts[i].Last + 1 = ts[i + 1].Next
  /\ \A k \in 0..(hashSpace - 1) : \E i \in 1..Len(ts) : ts[i].Next <= k /\ k <= ts[i].Last

\* C6 as stated: after every iteration of the loop the intervals of the
\* account tasks in the list are disjoint, ascending and contiguous, and
\* cover the hash space.
C6_PartitionAfterIteration ==
  [][ pc \notin {"idle", "loop"} /\ pc' = "loop" => Partition(Listed') ]_vars

\* C6 amended: the tasks of a first cycle partition the hash space until the
\* first request is created; in every reachable state, so after every
\* iteration of the loop, the tasks in the list are in ascending order of
\* Last, and the interval of a task that is not done starts behind the Last
\* of every task before it.
C6_OrderedAfterIteration ==
  /\ (pc # "idle" /\ ~env.status.saved /\ requests = << >>) => Partition(Listed)
  /\ \A i, j \in 1..Len(tasklist) :
       i < j => /\ Listed[i].Last < Listed[j].Last
                /\ ~Listed[j].done => Listed[i].Last < Listed[j].Next

\* An iteration has ended with two tasks in the list that no longer cover
\* the hash space: the first one has moved on.
C6_Witness ==
  /\ pc = "loop"
  /\ Len(tasklist) = 2
  /\ Listed[1].Next > 0
  /\ ~Listed[1].done /\ ~Listed[2].done

\* C7 as stated: Next <= Last for every account task and every storage
\* subtask, in every reachable state.
C7_NextWithinLast ==
  /\ \A i \in 1..Len(tasklist) : Listed[i].Next <= Listed[i].Last
  /\ \A st \in SubTasksListed : st.Next <= st.Last

\* C7 amended: Next <= Last for every account task that is not done and for
\* every storage subtask, in every reachable state.
C7_NextWithinLastUnlessDone ==
  /\ \A i \in 1..Len(tasklist) : ~Listed[i].done => Listed[i].Next <= Listed[i].Last
  /\ \A st \in SubTasksListed : st.Next <= st.Last

\* A storage subtask of a task that is not done was moved by one response
\* and completed by the next, whose only slot is the one at the subtask's
\* Last.
C7_Witness ==
  \E i \in 1..Len(tasklist) :
    /\ ~Listed[i].done
    /\ Listed[i].Last = 3
    /\ \E a \in DOMAIN Listed[i].SubTasks :
         \E k \in 1..Len(Listed[i].SubTasks[a]) :
           LET st == Listed[i].SubTasks[a][k]
           IN st.Next = 3 /\ st.Last = 3 /\ st.done

\* C8: for every account task, no step lowers Next and no step changes Last.
C8_NextNeverDecreases ==
  [][ \A t \in (DOMAIN tasks) \cap (DOMAIN tasks') :
        /\ tasks'[t].Next >= tasks[t].Next
        /\ tasks'[t].Last = tasks[t].Last ]_vars

\* C9: every id an assigner chooses is non-zero and is no key of the live
\* table of its class, so the request is entered without replacing another.
C9_FreshRequestId ==
  [][ \A h \in Created :
        /\ requests'[h].id # 0
        /\ requests'[h].id \notin DOMAIN reqs[requests'[h].class]
        /\ reqs'[requests'[h].class][requests'[h].id] = h ]_vars

\* A live request carries the id of an earlier request of its class that
\* was removed from the table.
C9_Witness ==
  \E h0, h \in Handles :
    /\ h0 < h
    /\ requests[h0].class = requests[h].class
    /\ requests[h0].id = requests[h].id
    /\ Live(h)
    /\ ~Live(h0)

\* C10: a request id is a key of at most one of the five live tables.
C10_IdInOneTable ==
  \A c1, c2 \in Classes : c1 # c2 => (DOMAIN reqs[c1]) \cap (DOMAIN reqs[c2]) = {}

\* C11: stale is closed at most once per request, and a revert function
\* called on a request whose stale is closed leaves the live tables, every
\* task with its req slots and queues, and the heal queues as they are.
C11_StaleClosedOnce ==
  [][ /\ \A h \in DOMAIN requests' : requests'[h].closes <= 1
      /\ \A m \in failq :
           (pc = "select" /\ pc' = "loop" /\ m \notin failq' /\ requests[m.h].stale)
             => UNCHANGED << reqs, tasks, healer >> ]_vars

\* A revert function was called twice on a request and closed stale once.
C11_Witness ==
  \E h \in Handles : requests[h].reverts >= 2 /\ requests[h].closes = 1

\* C12 as stated: a request whose response was integrated or that was
\* reverted has its stale signal closed.
C12_BothSinksCloseStale ==
  \A h \in Handles :
    (requests[h].integrated \/ requests[h].reverted) => requests[h].closes >= 1

\* C12 amended: a request whose response was integrated or that was reverted
\* is no longer in the live table, and its stale signal is closed exactly if
\* it was reverted.
C12_OnlyRevertClosesStale ==
  \A h \in Handles :
    /\ (requests[h].integrated \/ requests[h].reverted) => ~Live(h)
    /\ requests[h].closes = (IF requests[h].reverted THEN 1 ELSE 0)

\* One request was reverted and another one had its response integrated
\* without being reverted.
C12_Witness ==
  \E h1, h2 \in Handles :
    /\ requests[h1].reverted /\ ~requests[h1].integrated /\ requests[h1].closes = 1
    /\ requests[h2].integrated /\ ~requests[h2].reverted /\ requests[h2].closes = 0

\* C13: at the moment Sync returns, no worker counted by the wait-group is
\* still running.
C13_NoWorkerAtReturn ==
  [][ (pc # "returned" /\ pc' = "returned") => pendWorkers' = {} ]_vars

\* A worker inside the select of a channel send none of whose cases can be
\* taken: the loop receives only at its own select, cancel is open and the
\* request's stale is open.
Blocked(m) == pc \in {"returned", "panic"} /\ ~cancel /\ ~requests[m.h].stale

\* C14: after Sync has returned no worker remains blocked at the send of a
\* response or of a failed request.
C14_NoWorkerBlockedAfterReturn ==
  pc = "returned" => \A m \in respq \cup failq : ~Blocked(m)

----------------------------------------------------------------------------
(* The persisted status *)

\* C15: Sync to the root of the empty trie on a store without a persisted
\* status returns nil at once: no account task is in s.tasks, no request is
\* ever created and accountSynced is 0 at the return.
C15_EmptyRootReturnsAtOnce ==
  [][ (env.root = emptyRoot /\ ~env.status.saved)
        => /\ requests' = << >>
           /\ (pc = "idle" /\ pc' # "idle")
                => /\ pc' = "returned" /\ result' = "nil"
                   /\ tasklist' = << >>
                   /\ ctr'.accountSynced = 0 ]_vars

\* C16: after a cycle that ran to completion (Sync returned nil), a further
\* call of Sync with the same root returns nil without creating a request,
\* without changing the persisted status and without changing a counter.
C16_SyncAgainIsNoOp ==
  [][ (pc = "returned" /\ result = "nil" /\ env'.may.sync < env.may.sync)
        => /\ pc' = "returned" /\ result' = "nil"
           /\ Len(requests') = Len(requests)
           /\ db'.status = db.status
           /\ ctr' = ctr ]_vars

\* Sync was called a second time, after a cycle that healed a node.
C16_Witness ==
  /\ pc = "returned" /\ result = "nil"
  /\ env.may.sync = 0
  /\ env.nodes # {} /\ db.healed = env.nodes
  /\ Len(requests) > 0

\* The [Next, Last] of the tasks of s.tasks and of their storage subtasks.
Intervals(L) == Tuple([ i \in 1..Len(L.tasklist) |-> marshalTask(L.tasks[L.tasklist[i]]) ])

\* C17: saveSyncStatus followed by loadSyncStatus is the identity on the
\* progress: the tasks read back have the [Next, Last] of every account task
\* and storage subtask that was saved, and every counter of the progress
\* record, the heal duplicate and not-requested counters included, has the
\* value the Syncer had when it saved.
C17_SaveLoadIdentity ==
  [][ (Subscribed /\ pc' = "returned")
        => LET S == [ tasks |-> tasks', tasklist |-> tasklist', snapped |-> snapped', ctr |-> ctr' ]
               R == loadSyncStatus(S, db'.status)
           IN /\ Intervals(R) = Intervals(S)
              /\ \A c \in SavedCounters : R.ctr[c] = ctr'[c]
              /\ \A c \in DOMAIN ctr : db'.status.ctr[c] = ctr'[c] ]_vars

\* The tasks of s.tasks that are not done once the deferred functions ran.
Remaining == SelectSeq(tasklist, LAMBDA t : ~tasks'[t].done)

\* C18: whenever a started cycle exits, with nil or with ErrCancelled, the
\* status it persists holds exactly the account tasks that are not done at
\* the exit, each with its Next, Last and SubTasks, and every counter of the
\* Syncer; no done task is persisted.
C18_ExitPersistsRemaining ==
  [][ (Subscribed /\ pc' = "returned")
        => /\ db'.status.saved
           /\ db'.status.Tasks = Tuple([ i \in 1..Len(Remaining) |-> marshalTask(tasks'[Remaining[i]]) ])
           /\ \A c \in DOMAIN ctr : db'.status.ctr[c] = ctr'[c] ]_vars

\* C19: when the loop takes the cancel case of its select, Sync returns
\* ErrCancelled, no revert function is called and no stale channel closed,
\* and every task of s.tasks with a pending account request is persisted
\* with the Next, Last and SubTasks it had.
C19_CancelLeavesTasks ==
  [][ (pc = "select" /\ pc' = "returned")
        => /\ cancel
           /\ result' = "ErrCancelled"
           /\ \A h \in Handles : /\ requests'[h].reverts = requests[h].reverts
                                  /\ requests'[h].closes = requests[h].closes
           /\ \A i \in 1..Len(tasklist) :
                tasks[tasklist[i]].req # 0
                  => /\ i <= Len(db'.status.Tasks)
                     /\ db'.status.Tasks[i] = marshalTask(tasks[tasklist[i]]) ]_vars

\* A cycle was cancelled while an account request was pending.
C19_Witness ==
  /\ pc = "returned" /\ result = "ErrCancelled"
  /\ \E i \in 1..Len(tasklist) :
       /\ tasks[tasklist[i]].req # 0
       /\ requests[tasks[tasklist[i]].req].reverts = 0
       /\ ~requests[tasks[tasklist[i]].req].integrated
       /\ db.status.Tasks[i] = marshalTask(tasks[tasklist[i]])

----------------------------------------------------------------------------
(* Calls of the registry that are refused *)

\* A step that is a call of Register or Unregister with the given id.
Called(op, p) ==
  /\ hist'.call = << op, p >>
  /\ \/ env'.may.reg # env.may.reg
     \/ env'.may.unreg # env.may.unreg
     \/ env'.may.bad # env.may.bad

\* C20: Register of an id that is registered returns an error and
\* Unregister of an id that is not registered returns an error; in both
\* cases the peer table, the five idle sets, the stateless set and the live
\* tables stay as they are and no event goes to the peerJoin or peerDrop feed.
C20_RefusedCallsChangeNothing ==
  [][ \A p \in Peers :
        /\ (Called("Register", p) /\ p \in peers)
             => /\ hist'.err = "already registered"
                /\ UNCHANGED << peers, idlers, statelessPeers, reqs, peerJoin, peerDrop >>
        /\ (Called("Unregister", p) /\ p \notin peers)
             => /\ hist'.err = "not registered"
                /\ UNCHANGED << peers, idlers, statelessPeers, reqs, peerJoin, peerDrop >> ]_vars

\* A call was refused while the loop was subscribed and a peer was busy with
\* a live request.
C20_Witness ==
  /\ hist.err \in {"already registered", "not registered"}
  /\ Subscribed
  /\ \E h \in Handles : Live(h) /\ requests[h].peer \in peers

----------------------------------------------------------------------------
(* Peer drops, timeouts and rejections *)

\* Whether what the request asked for is to be assigned again, in the tasks
\* ts and the heal task hl: task.req or subtask.req is nil, the code hashes
\* are in codeTasks, the accounts with their roots in stateTasks, the heal
\* hashes in trieTasks or in the heal codeTasks.
FragmentPending(req, ts, hl) ==
  CASE req.class = "account"      -> ts[req.task].req = 0
    [] req.class = "bytecode"     -> Range(req.hashes) \subseteq ts[req.task].codeTasks
    [] req.class = "storage"      ->
         IF req.subTask = NoSubTask
         THEN \A i \in 1..Len(req.accounts) :
                /\ req.accounts[i] \in DOMAIN ts[req.task].stateTasks
                /\ ts[req.task].stateTasks[req.accounts[i]] = req.roots[i]
         ELSE LET at == FindSubTask(ts[req.task], req.subTask)
              IN at # << >> => ts[req.task].SubTasks[at[1]][at[2]].req = 0
    [] req.class = "trienodeHeal" -> Range(req.hashes) \subseteq hl.trieTasks
    [] req.class = "bytecodeHeal" -> Range(req.hashes) \subseteq hl.codeTasks

\* C21: a successful Unregister takes the peer out of s.peers and of the
\* five idle sets; once the loop has handled the peerDrop event, no live
\* table holds a request of that peer and what its requests asked for is
\* pending again.
C21_DropRevertsAll ==
  [][ /\ \A p \in Peers :
           (Called("Unregister", p) /\ p \in peers)
             => p \notin peers' /\ \A c \in Classes : p \notin idlers'[c]
      /\ (pc = "revert" /\ pc' # "revert")
           => \A i \in DOMAIN dropping :
                /\ \A g \in DOMAIN requests' :
                     (/\ requests'[g].id \in DOMAIN reqs'[requests'[g].class]
                      /\ reqs'[requests'[g].class][requests'[g].id] = g)
                       => requests'[g].peer # requests[dropping[i]].peer
                /\ FragmentPending(requests[dropping[i]], tasks', healer') ]_vars

\* Peer p has left while the live account request that task t points at is
\* still its own, and the task stands at Next = n.
DroppedHolding(p, t, n) ==
  /\ p \notin peers
  /\ t \in DOMAIN tasks
  /\ tasks[t].Next = n
  /\ tasks[t].req \in Handles
  /\ Live(tasks[t].req)
  /\ requests[tasks[t].req].peer = p

\* An account request was reverted by a peer drop, no further peer can leave
\* and peer q is registered.
HandedTo(q, t) ==
  /\ env.may.unreg = 0
  /\ q \in peers
  /\ t \in DOMAIN tasks
  /\ \E h \in Handles : requests[h].class = "account" /\ requests[h].reverted

\* C22: a peer that is unregistered while it holds the live account request
\* of a task, before any reply, leads to the task without a pending request
\* and with Next unchanged; with a peer registered after that and answering,
\* the task is assigned to a registered peer again and is completed.
C22_DropThenHandover ==
  \A p \in Peers : \A t \in 1..Len(Handover.status.Tasks) :
    /\ \A n \in 0..(hashSpace - 1) :
         DroppedHolding(p, t, n) ~> (t \in DOMAIN tasks /\ tasks[t].req = 0 /\ tasks[t].Next = n)
    /\ \A q \in Peers :
         /\ (HandedTo(q, t) /\ tasks[t].req = 0 /\ ~tasks[t].done)
              ~> (t \in DOMAIN tasks /\ tasks[t].req \in Handles /\ requests[tasks[t].req].peer \in peers)
         /\ HandedTo(q, t) ~> (t \in DOMAIN tasks /\ tasks[t].done)

\* The task was given up by a peer that left and completed by another.
C22_Witness ==
  \E t \in DOMAIN tasks : \E h1, h2 \in Handles :
    /\ tasks[t].done
    /\ requests[h1].class = "account" /\ requests[h1].reverted /\ ~requests[h1].integrated
    /\ requests[h2].class = "account" /\ requests[h2].integrated /\ h2 > h1

\* The loop reverts request h in this step: its stale signal is closed.
Reverts(h) == h \in Handles /\ requests'[h].closes > requests[h].closes

\* The peer's reply for request h is delivered in this step, after the timer
\* of the request has fired.
LateReply(h) ==
  /\ h \in Handles
  /\ requests[h].timeout = "fired"
  /\ requests[h].sender = "sending"
  /\ requests'[h].sender = "done"

\* C23: a request whose timer fired before a reply was accepted is reverted
\* once, and the revert leaves its task fragment pending; a reply for it that
\* is delivered after the timer fired publishes no response and changes no
\* task, no pending queue and no counter.
C23_TimeoutThenLateReply ==
  [][ \A h \in Handles :
        /\ requests[h].timeout = "fired" => requests'[h].closes <= 1
        /\ (requests[h].timeout = "fired" /\ Reverts(h))
              => FragmentPending(requests[h], tasks', healer')
        /\ LateReply(h)
              => /\ respq' = respq
                 /\ tasks' = tasks /\ healer' = healer /\ ctr' = ctr /\ db' = db ]_vars

\* In this step OnAccounts takes a reply without hashes, accounts and proof
\* for the live account request h and hands h to the failure channel.
Rejected(h) ==
  /\ h \in Handles
  /\ requests[h].class = "account"
  /\ Live(h)
  /\ requests[h].timeout = "armed"
  /\ env'.may.empty < env.may.empty \/ DOMAIN env.world = {}
  /\ [h |-> h, src |-> "callback"] \in failq' \ failq

\* C24: a reply without hashes, accounts and proof to a live account request
\* puts the answering peer into the stateless set and neither ends Sync nor
\* touches a task; the revert of the request leaves its task without a
\* pending request and with Next unchanged, and Sync goes on.
C24_RejectionReverts ==
  [][ \A h \in Handles :
        /\ Rejected(h)
             => /\ \E h0 \in Handles : /\ requests[h0].sender = "sending"
                                        /\ requests'[h0].sender = "done"
                                        /\ requests[h0].peer \in statelessPeers'
                /\ pc' = pc /\ result' = result /\ tasks' = tasks
        /\ (requests[h].class = "account" /\ [h |-> h, src |-> "callback"] \in failq /\ Reverts(h))
             => /\ tasks'[requests[h].task].req = 0
                /\ tasks'[requests[h].task].Next = tasks[requests[h].task].Next
                /\ pc' \notin {"returned", "panic"} ]_vars

----------------------------------------------------------------------------
(* Phases of a cycle *)

\* C25: within a cycle a heal request is only created with the list of
\* account tasks empty, the list once empty stays empty until Sync returns,
\* and Sync returns nil only with the list empty and nothing that the
\* scheduler waits for.
C25_SnapHealDone ==
  [][ /\ \A h \in 1..Len(requests') :
           (h > Len(requests) /\ requests'[h].class \in {"trienodeHeal", "bytecodeHeal"})
             => tasklist = << >> /\ tasklist' = << >>
      /\ (Subscribed /\ tasklist = << >>) => tasklist' = << >>
      /\ (pc # "returned" /\ pc' = "returned" /\ result' = "nil")
           => tasklist' = << >> /\ healer'.sched.reqs = {} ]_vars

\* Sync has returned nil after a cycle that sent account requests and heal
\* requests.
C25_Witness ==
  /\ pc = "returned" /\ result = "nil"
  /\ tasklist = << >>
  /\ \E h1, h2 \in Handles :
       /\ requests[h1].class = "account" /\ requests[h1].integrated
       /\ requests[h2].class \in {"trienodeHeal", "bytecodeHeal"} /\ requests[h2].integrated
       /\ h1 < h2

----------------------------------------------------------------------------
(* The sub-retrievals of an account response *)

\* The number of indices at which a flag vector is set.
Count(flags) == Cardinality({ i \in 1..Len(flags) : flags[i] })

\* C26: a task that holds a response has pend equal to the number of
\* accounts that need code plus the number of accounts that need state.
C26_PendCountsNeeds ==
  \A t \in DOMAIN tasks :
    tasks[t].res.present => tasks[t].pend = Count(tasks[t].needCode) + Count(tasks[t].needState)

\* forwardAccountTask moves task t in this step: Next advances or the task
\* is done.
Forwarded(t) ==
  /\ t \in DOMAIN tasks /\ t \in DOMAIN tasks'
  /\ tasks'[t].Next # tasks[t].Next \/ (tasks'[t].done /\ ~tasks[t].done)

\* After this step a bytecode or storage request of task t is in a live
\* table, or a response to one waits for the loop.
InFlight(t) ==
  \E h \in 1..Len(requests') :
    /\ requests'[h].class \in {"bytecode", "storage"}
    /\ requests'[h].task = t
    /\ \/ /\ requests'[h].id \in DOMAIN reqs'[requests'[h].class]
          /\ reqs'[requests'[h].class][requests'[h].id] = h
       \/ \E m \in respq' : m.h = h

\* C27: a task is forwarded only with pend = 0 and with no bytecode or
\* storage request or response of the task in flight.
C27_ForwardOnlyWhenFilled ==
  [][ \A t \in 1..Len(tasks) :
        Forwarded(t) => tasks'[t].pend = 0 /\ ~InFlight(t) ]_vars

\* C28: a task that is done has no subtask, pend = 0 and no response.
C28_DoneTaskIsBare ==
  \A t \in DOMAIN tasks :
    tasks[t].done => /\ DOMAIN tasks[t].SubTasks = {}
                     /\ tasks[t].pend = 0
                     /\ ~tasks[t].res.present

----------------------------------------------------------------------------
(* The trie nodes an integration writes *)

\* The trie nodes this step adds to the store.
Written == db'.nodes \ db.nodes

\* The loop takes the response to request h in this step.
Integrates(h) ==
  /\ h \in Handles
  /\ ~requests[h].integrated /\ requests'[h].integrated
  /\ \E m \in respq \ respq' : m.h = h

\* The account response of task t that this step deals with: the one the
\* loop takes, or the one the task holds.
Held(t) ==
  LET ms == { m \in respq \ respq' :
                Integrates(m.h) /\ requests[m.h].class = "account" /\ requests[m.h].task = t }
  IN IF ms # {} THEN (CHOOSE m \in ms : TRUE).res ELSE tasks[t].res

\* This step forwards a response of task t.
ForwardsResponse(t) ==
  /\ t \in DOMAIN tasks
  /\ ~tasks'[t].res.present
  /\ \/ tasks[t].res.present
     \/ \E h \in Handles : Integrates(h) /\ requests[h].class = "account" /\ requests[h].task = t

\* The nodes of a set that lie towards one of the keys.
Towards(nodes, keys) == { n \in nodes : \E k \in keys : n.lo <= k /\ k <= n.hi }

\* The boundary, the overflow and the incompletes of the response of task t:
\* the nodes towards the accounts behind Last, towards the accounts from the
\* first one on that needs code or state, and towards those that need healing.
Skipped(t) ==
  LET res      == Held(t)
      flags    == tasks'[t]
      over     == { i \in 1..Len(res.hashes) : res.hashes[i] > tasks[t].Last }
      unfilled == { i \in 1..Len(flags.needCode) : flags.needCode[i] \/ flags.needState[i] }
      inc      == { i \in 1..Len(flags.needHeal) : flags.needHeal[i] \/ \E j \in unfilled : j <= i }
  IN res.bounds \cup res.overflow \cup Towards(res.nodes, { res.hashes[i] : i \in over \cup inc })

\* The response to request h that the loop takes in this step.
Taken(h) == (CHOOSE m \in respq \ respq' : m.h = h).res

\* The loop takes a chunked storage response: one to a request for a chunk
\* of a large contract, or one whose last account goes on.
Chunked(h) ==
  /\ Integrates(h)
  /\ requests[h].class = "storage"
  /\ requests[h].subTask # NoSubTask \/ Taken(h).cont

\* The Last of the chunk a chunked response to request h fills.
ChunkLast(h) ==
  IF requests[h].subTask # NoSubTask THEN requests[h].subTask[2]
  ELSE chunkRange(storageConcurrency, 0, 0)[1].Last

\* The boundary and the overflow of the chunked response to request h.
ChunkSkipped(h) ==
  LET res  == Taken(h)
      n    == Len(res.hashes)
      over == { res.hashes[n][l] : l \in { x \in 1..Len(res.hashes[n]) : res.hashes[n][x] > ChunkLast(h) } }
  IN res.bounds \cup res.overflow \cup Towards(res.nodes[n], over)

\* C29: no trie node written while an account task is forwarded is in the
\* boundary, the overflow or the incompletes of the forwarded response, and
\* no trie node written while a chunked storage response is integrated is in
\* the boundary or the overflow of that response.
C29_BoundaryNeverWritten ==
  [][ /\ \A t \in 1..Len(tasks) : ForwardsResponse(t) => Written \cap Skipped(t) = {}
      /\ \A h \in Handles : Chunked(h) => Written \cap ChunkSkipped(h) = {} ]_vars

----------------------------------------------------------------------------
(* Reverting and assigning again *)

\* What a request asks its peer for.
Payload(req) ==
  [ class    |-> req.class, origin |-> req.origin, limit |-> req.limit,
    hashes   |-> Range(req.hashes),
    accounts |-> { << req.accounts[i], req.roots[i] >> : i \in 1..Len(req.accounts) } ]

\* Two requests are for the same task fragment: the same account task, the
\* same storage subtask, or accounts, codes or trie nodes in common.
SameFragment(a, b) ==
  /\ a.class = b.class
  /\ CASE a.class = "account"  -> a.task = b.task
       [] a.class = "storage"  -> /\ a.task = b.task
                                  /\ a.subTask = b.subTask
                                  /\ a.subTask = NoSubTask => Range(a.accounts) \cap Range(b.accounts) # {}
       [] a.class = "bytecode" -> a.task = b.task /\ Range(a.hashes) \cap Range(b.hashes) # {}
       [] OTHER                -> Range(a.hashes) \cap Range(b.hashes) # {}

\* Request h was reverted and no request of its class was created since;
\* this step creates g for the fragment of h.
AssignedAgain(h, g) ==
  /\ h \in Handles /\ g \in Created
  /\ requests[h].reverted /\ requests[h].peer # ""
  /\ \A k \in Handles : k > h => requests[k].class # requests[h].class
  /\ SameFragment(requests[h], requests'[g])

\* C30: a request that is assigned for the fragment of a reverted request
\* carries the payload of the reverted one.
C30_RevertThenReassign ==
  [][ \A h \in Handles : \A g \in Created :
        AssignedAgain(h, g) => Payload(requests'[g]) = Payload(requests[h]) ]_vars

\* ---------------------------------------------------------------------
\* The chunks of a fresh cycle

\* loadSyncStatus runs in this step.
Loads == env'.may.sync # env.may.sync

\* n intervals, ascending and contiguous from 0 to the end of the hash
\* space, all but the last of one width.
Chunking(ts, n) ==
  /\ Len(ts) = n
  /\ ts[1].Next = 0
  /\ ts[n].Last = hashSpace - 1
  /\ \A i \in 1..n : ts[i].Next <= ts[i].Last
  /\ \A i \in 1..(n - 1) : ts[i + 1].Next = ts[i].Last + 1
  /\ \A i, j \in 1..(n - 1) : ts[i].Last - ts[i].Next = ts[j].Last - ts[j].Next

\* C31: when loadSyncStatus finds no persisted progress, the task list it
\* leaves has accountConcurrency tasks whose intervals are ascending and
\* contiguous, start at 0 and end at the last hash, all but the last of the
\* same width; the chunking loop gives such intervals for every count of
\* chunks the hash space has room for.
C31_FreshChunks ==
  [][ (Loads /\ ~db.status.saved) =>
        /\ Chunking(Listed', accountConcurrency)
        /\ \A i \in 1..Len(tasklist') :
             /\ ~Listed'[i].done /\ Listed'[i].req = 0 /\ ~Listed'[i].res.present
             /\ DOMAIN Listed'[i].SubTasks = {}
        /\ \A n \in 1..hashSpace : Chunking(chunkRange(n, 0, 0), n) ]_vars

\* A cycle without persisted progress has loaded its tasks and no request
\* has been made yet.
C31_Witness ==
  /\ pc \notin {"idle", "returned"}
  /\ ~env.status.saved
  /\ ~db.status.saved
  /\ DOMAIN requests = {}
  /\ Len(tasklist) = accountConcurrency
  /\ Listed[1].Next = 0
  /\ Listed[Len(tasklist)].Last = hashSpace - 1

\* ---------------------------------------------------------------------
\* A cycle over a single plain account

\* The account requests made so far.
AccountRequests == { h \in Handles : requests[h].class = "account" }

\* Sync has returned nil with every chunk done by one request and the one
\* account counted.
SoloSynced ==
  /\ pc = "returned"
  /\ result = "nil"
  /\ Len(tasks) = accountConcurrency
  /\ \A t \in DOMAIN tasks : tasks[t].done
  /\ tasklist = << >>
  /\ Cardinality(AccountRequests) = accountConcurrency
  /\ \A h \in AccountRequests : requests[h].integrated /\ ~requests[h].reverted
  /\ ctr.accountSynced = 1

Delivered(t) ==
  { i \in 1..Len(Held(t).hashes) : i <= Len(tasks'[t].needCode) /\ Held(t).hashes[i] <= tasks[t].Last }

\* The delivered accounts that still need code or state when the response
\* is forwarded.
Incomplete(t) == { i \in Delivered(t) : tasks'[t].needCode[i] \/ tasks'[t].needState[i] }

\* C33: when a step forwards the response of a task, every delivered account
\* with a hash below the new Next needs neither code nor state, and Next is
\* unchanged if the first delivered account needs code or state.
C33_NextBehindComplete ==
  [][ \A t \in DOMAIN tasks :
        ForwardsResponse(t) =>
          /\ \A i \in Incomplete(t) : Held(t).hashes[i] >= tasks'[t].Next
          /\ 1 \in Incomplete(t) => tasks'[t].Next = tasks[t].Next ]_vars

\* The continuation flag of the response of task t that this step forwards,
\* told from what the peer delivered: more accounts follow and no delivered
\* hash is at or behind the task's Last.
Continues(t) ==
  /\ Held(t).cont
  /\ \A i \in 1..Len(Held(t).hashes) : Held(t).hashes[i] < tasks[t].Last

\* C34: a step that forwards the response of a task leaves the task done if
\* no delivered account needs code or state and the response does not
\* continue, not done if none needs code or state and the response
\* continues, and leaves done as it was otherwise; the response does not
\* continue once a delivered hash is at or behind Last, and when the
\* forward turns the task done every account of the state between Next and
\* Last was delivered in the response.
C34_DoneIffCompleteAndEnded ==
  [][ \A t \in DOMAIN tasks :
        ForwardsResponse(t) =>
          /\ Incomplete(t) = {} => (tasks'[t].done <=> ~Continues(t))
          /\ Incomplete(t) # {} => (tasks'[t].done <=> tasks[t].done)
          /\ (tasks'[t].done /\ ~tasks[t].done) =>
               \A k \in DOMAIN env.world :
                 (tasks[t].Next <= k /\ k <= tasks[t].Last) =>
                   \E i \in Delivered(t) : Held(t).hashes[i] = k ]_vars

\* A task was forwarded and left done by a response that reached its Last,
\* and another was forwarded and left not done by a response that continues.
C34_Witness ==
  \E t, u \in DOMAIN tasks :
    /\ tasks[t].done /\ ~tasks[t].res.present
    /\ \E h \in Handles : requests[h].class = "account" /\ requests[h].integrated
    /\ ~tasks[u].done /\ ~tasks[u].res.present /\ tasks[u].Next > tasks[u].Last - (hashSpace \div accountConcurrency) + 1
    /\ tasks[u].needCode # << >> /\ \A i \in 1..Len(tasks[u].needCode) : ~tasks[u].needCode[i] /\ ~tasks[u].needState[i]

\* ---------------------------------------------------------------------
\* Accounts behind the end of a chunk

\* The loop takes the response to account request h in this step and the
\* reply reaches over the Last of the task.
Overflows(h) ==
  /\ Integrates(h)
  /\ requests[h].class = "account"
  /\ \E i \in 1..Len(Taken(h).hashes) : Taken(h).hashes[i] > tasks[requests[h].task].Last

\* The hashes of a reply up to Last, and those behind it.
Kept(hashes, last) == SelectSeq(hashes, LAMBDA k : k <= last)
CutOff(hashes, last) == { hashes[i] : i \in { j \in 1..Len(hashes) : hashes[j] > last } }

\* The tasks whose response this step forwards, and the accounts forwarded.
ForwardedTasks == { t \in DOMAIN tasks : ForwardsResponse(t) }
ForwardedAccounts == UNION { { << t, Held(t).hashes[i] >> : i \in Delivered(t) } : t \in ForwardedTasks }

\* C35: an account response that reaches over the Last of its task is
\* stored with the accounts up to Last only, with the nodes towards the
\* cut-off hashes in its overflow set and without continuation; a step
\* counts in accountSynced and writes as flat records the delivered accounts
\* up to Last of the tasks it forwards and no other, and Next moves behind
\* such an account or not at all.
C35_OverflowCutOff ==
  [][ /\ \A h \in Handles :
           Overflows(h) =>
             LET t   == requests[h].task
                 raw == Taken(h)
                 res == tasks'[t].res
             IN /\ res.present =>
                     /\ res.hashes = Kept(raw.hashes, tasks[t].Last)
                     /\ Len(res.accounts) = Len(res.hashes)
                     /\ ~res.cont
                     /\ Towards(raw.nodes, CutOff(raw.hashes, tasks[t].Last)) \subseteq res.overflow
                /\ ~res.present => tasks'[t].done
                /\ Written \cap Towards(raw.nodes, CutOff(raw.hashes, tasks[t].Last)) = {}
      /\ ctr'.accountSynced = ctr.accountSynced + Cardinality(ForwardedAccounts)
      /\ db'.flat \ db.flat \subseteq { a[2] : a \in ForwardedAccounts }
      /\ \A t \in ForwardedTasks :
           \/ tasks'[t].Next = tasks[t].Next
           \/ \E a \in ForwardedAccounts : a[1] = t /\ tasks'[t].Next = BigToHash(a[2] + 1)
      /\ \A t \in DOMAIN tasks' :
           \A i \in 1..Len(tasks'[t].res.hashes) : tasks'[t].res.hashes[i] <= tasks'[t].Last ]_vars

\* A reply that reached over the end of its chunk was stored without the
\* account behind Last, and has been forwarded with one account counted.
C35_Witness ==
  \E t \in DOMAIN tasks : \E h \in Handles :
    /\ requests[h].class = "account" /\ requests[h].integrated
    /\ ~tasks[t].res.present
    /\ tasks[t].Last < hashSpace - 1
    /\ tasks[t].done
    /\ Len(tasks[t].needCode) = 1
    /\ ctr.accountSynced = 1
    /\ ctr.bytecodeSynced = 1
    /\ db.flat = {2}

\* ---------------------------------------------------------------------
\* Switching to large contract retrieval

\* The loop takes the response to a storage request for whole accounts
\* whose last account goes on.
Batched(h) ==
  /\ Integrates(h)
  /\ requests[h].class = "storage"
  /\ requests[h].subTask = NoSubTask
  /\ Taken(h).cont

\* The last account of the response to request h and its last slot.
LastAccount(h) == requests[h].accounts[Len(Taken(h).hashes)]
LastSlot(h) ==
  LET slots == Taken(h).hashes[Len(Taken(h).hashes)]
  IN slots[Len(slots)]

\* The positions of an account in the response a task holds.
IndexOf(t, a) == { j \in 1..Len(tasks[t].res.hashes) : tasks[t].res.hashes[j] = a }

\* The positions whose needState flag this step clears.
Cleared(t) ==
  { j \in 1..Len(tasks[t].needState) :
      tasks[t].needState[j] /\ (j > Len(tasks'[t].needState) \/ ~tasks'[t].needState[j]) }

\* The subtasks are the chunks of the storage key space, the first one moved
\* to next.
ChunksFrom(subs, next) ==
  LET chunks == chunkRange(storageConcurrency, 0, 0)
  IN /\ Len(subs) = storageConcurrency
     /\ chunks[1].Next = 0 /\ chunks[storageConcurrency].Last = hashSpace - 1
     /\ \A k \in 1..storageConcurrency :
          /\ subs[k].Last = chunks[k].Last
          /\ subs[k].Next = IF k = 1 THEN next ELSE chunks[k].Next
          /\ k > 1 => ~subs[k].done /\ subs[k].Next = subs[k - 1].Last + 1

\* While an account has a subtask that is not done, its needState flag is
\* not cleared and pend goes down only with the flags that are cleared.
HeldBack(t) ==
  /\ tasks[t].res.present /\ tasks'[t].res.present =>
       tasks'[t].pend >= tasks[t].pend - Cardinality(Cleared(t))
  /\ \A a \in DOMAIN tasks[t].SubTasks :
       (\E k \in 1..Len(tasks[t].SubTasks[a]) : ~tasks[t].SubTasks[a][k].done)
         => Cleared(t) \cap IndexOf(t, a) = {}

LiveFor(t, a) ==
  { h \in Filling(t, "storage") : \E i \in 1..Len(requests[h].accounts) : requests[h].accounts[i] = a }

\* C37 as stated: for an account with an entry in SubTasks at most one
\* storage request is live at any time.
C37_OneRequestPerLargeContract ==
  \A t \in DOMAIN tasks : \A a \in DOMAIN tasks[t].SubTasks :
    Cardinality(LiveFor(t, a)) <= 1

\* C37 amended: a storage request for a chunk of a large contract goes to
\* the first subtask of the account that holds no request, asks for that
\* account alone from the subtask's Next to its Last and is held by the
\* subtask from then on; one call of assignStorageTasks makes at most one
\* request for a task.  The subtasks of one account can be filling at the
\* same time, each by a request of its own.
C37_RequestTakesFreeSubTask ==
  [][ /\ \A g \in Created :
           (requests'[g].class = "storage" /\ requests'[g].subTask # NoSubTask) =>
             LET t == requests'[g].task
             IN \E a \in DOMAIN tasks[t].SubTasks : \E k \in 1..Len(tasks[t].SubTasks[a]) :
                  LET st == tasks[t].SubTasks[a][k]
                  IN /\ st.id = requests'[g].subTask
                     /\ st.req = 0
                     /\ \A i \in 1..(k - 1) : tasks[t].SubTasks[a][i].req # 0
                     /\ requests'[g].accounts = << a >>
                     /\ requests'[g].origin = st.Next
                     /\ requests'[g].limit = st.Last
                     /\ tasks'[t].SubTasks[a][k].req = g
      /\ \A g1, g2 \in Created :
           (requests'[g1].class = "storage" /\ requests'[g2].class = "storage"
              /\ requests'[g1].task = requests'[g2].task) => g1 = g2 ]_vars

\* Two storage requests for two chunks of one account are live at once.
C37_Witness ==
  \E t \in DOMAIN tasks : \E a \in DOMAIN tasks[t].SubTasks :
    \E h1, h2 \in LiveFor(t, a) :
      /\ h1 # h2
      /\ requests[h1].subTask # NoSubTask /\ requests[h2].subTask # NoSubTask
      /\ requests[h1].subTask # requests[h2].subTask
      /\ requests[h1].peer # requests[h2].peer

\* ---------------------------------------------------------------------
\* The account response behind bytecode and storage retrieval

\* The loop takes the response to request h in this step, whether or not it
\* gets through with it.
Receives(h) ==
  /\ pc = "select" /\ pc' \in {"loop", "panic"}
  /\ \E m \in respq \ respq' : m.h = h

\* C38: when the loop takes a bytecode or a storage response, and when the
\* cleanup at the top of the loop finds all storage subtasks of an account
\* done, the account task holds an account response.
C38_ResponseHeld ==
  [][ /\ \A h \in Handles :
           (Receives(h) /\ requests[h].class \in {"bytecode", "storage"})
             => tasks[requests[h].task].res.present
      /\ pc = "loop" =>
           \A i \in 1..Len(tasklist) : \A a \in DOMAIN Listed[i].SubTasks :
             (\A k \in 1..Len(Listed[i].SubTasks[a]) : Listed[i].SubTasks[a][k].done)
               => Listed[i].res.present ]_vars

\* ---------------------------------------------------------------------
\* Where the work of a cycle is

\* The requests that still carry their payload for the loop: in a live
\* table, gathered for a revert, on the way to the loop as a failure, or on
\* the way to the loop with a validated response.
Carried ==
  { h \in Handles : \/ Live(h)
                    \/ h \in Range(dropping)
                    \/ \E m \in failq : m.h = h
                    \/ \E m \in respq : m.h = h }

\* The code of the j-th account of the response of task t is queued or
\* carried by a bytecode request of the task.
CodeKept(t, j) ==
  LET c == tasks[t].res.accounts[j].code
  IN \/ c \in tasks[t].codeTasks
     \/ \E h \in Carried : /\ requests[h].class = "bytecode" /\ requests[h].task = t
                           /\ c \in Range(requests[h].hashes)

\* The storage of the j-th account of the response of task t is queued, has
\* a subtask without a request, or is carried by a storage request of the
\* task.
StateKept(t, j) ==
  LET a == tasks[t].res.hashes[j]
  IN \/ a \in DOMAIN tasks[t].stateTasks
     \/ /\ a \in DOMAIN tasks[t].SubTasks
        /\ \E k \in 1..Len(tasks[t].SubTasks[a]) : tasks[t].SubTasks[a][k].req = 0
     \/ \E h \in Carried : /\ requests[h].class = "storage" /\ requests[h].task = t
                           /\ a \in Range(requests[h].accounts)

\* A heal item the scheduler handed out and has not processed is queued or
\* carried by a heal request.
HealKept(x) ==
  \/ x \in healer.trieTasks \cup healer.codeTasks
  \/ \E h \in Carried : /\ requests[h].class \in {"trienodeHeal", "bytecodeHeal"}
                        /\ x \in Range(requests[h].hashes)

\* C39: while a cycle runs, the code of every account that needs code, the
\* storage of every account that needs state and every heal item handed out
\* and not processed is in its queue, in the payload of a live request, with
\* a revert on its way to the loop or with a validated response on its way
\* to the loop.
C39_NoWorkLost ==
  pc \notin {"idle", "returned", "panic"} =>
    /\ \A i \in 1..Len(tasklist) :
         Listed[i].res.present =>
           \A j \in 1..Len(Listed[i].res.hashes) :
             /\ Listed[i].needCode[j] => CodeKept(tasklist[i], j)
             /\ Listed[i].needState[j] => StateKept(tasklist[i], j)
    /\ \A x \in healer.sched.reqs \ healer.sched.queue : HealKept(x)

\* C39 (amended): the same, for as long as the caller has not closed the
\* cancel channel of the cycle.
C39_NoWorkLostUntilCancelled ==
  ~cancel => C39_NoWorkLost

\* A storage request was reverted, no cancel was signalled, and the account
\* it asked for still needs state and has a subtask without a request.
C39_Witness ==
  /\ ~cancel
  /\ pc \notin {"idle", "returned", "panic"}
  /\ \E h \in Handles : requests[h].class = "storage" /\ requests[h].reverted
  /\ \E i \in 1..Len(tasklist) :
       /\ Listed[i].res.present
       /\ \E j \in 1..Len(Listed[i].res.hashes) :
            /\ Listed[i].needState[j]
            /\ Listed[i].res.hashes[j] \in DOMAIN Listed[i].SubTasks
            /\ \E k \in 1..Len(Listed[i].SubTasks[Listed[i].res.hashes[j]]) :
                 Listed[i].SubTasks[Listed[i].res.hashes[j]][k].req = 0

\* ---------------------------------------------------------------------
\* The registry lock and the channel sends

\* The callbacks blocked in a send to the loop: on a failure channel or on
\* the response channel of a request.  A timer or a sender in
\* scheduleRevert<Class>Request never took the lock.
Sending == { x \in failq : x.src = "callback" } \cup respq

\* C40: a callback that starts its send on a response channel or on a
\* failure channel has left the lock; the loop holds the lock only inside
\* an assigner, never where it receives; and whoever holds the lock needs
\* nobody else to move on to its unlock.
C40_NoSendUnderLock ==
  [][ /\ Sending' # Sending /\ Sending \subseteq Sending' => lock' = Unlocked
      /\ lock = Loop => pc \in Classes /\ ENABLED Assign
      /\ \A h \in Handles :
           lock = Callback(h) => ENABLED (ReplyAccounts(h) \/ ReplyStorage(h)) ]_vars

\* A callback is blocked in its send and a failure waits for the loop while
\* the loop or another callback is inside a section of the lock.
C40_Witness ==
  /\ Sending # {}
  /\ failq # {}
  /\ lock # Unlocked

====
